---- MODULE Spec2Model ----
(***************************************************************************)
(* The per-room client state machine (makeStateMachine, defaultState) of   *)
(* src/unnamed/part_000.  Every field of the State object is a variable;   *)
(* every function of the machine is an operator from a machine record      *)
(* (the fields, the clock, and the effects of the running handler) to the  *)
(* machine record after the call, so that a handler is the composition of  *)
(* the calls its code makes.                                               *)
(***************************************************************************)
EXTENDS Integers, Sequences, FiniteSets, TLC

VARIABLES
    connection,         \* state.connection
    token,              \* state.token (the actor of the cached token, or NoToken)
    lastConnectionId,   \* state.lastConnectionId
    socket,             \* state.socket: "null", or the readyState of the socket
    lastFlushTime,      \* state.lastFlushTime
    buffer,             \* state.buffer {presence, messages, storageOperations}
    timeoutHandles,     \* state.timeoutHandles {flush, reconnect, pongTimeout}
    intervalHandles,    \* state.intervalHandles {heartbeat}
    me,                 \* state.me
    others,             \* state.others
    users,              \* state.users
    numberOfRetry,      \* state.numberOfRetry
    clock,              \* state.clock
    opClock,            \* state.opClock
    root,               \* state.root
    undoStack,          \* state.undoStack
    redoStack,          \* state.redoStack
    isHistoryPaused,    \* state.isHistoryPaused
    pausedHistory,      \* state.pausedHistory
    isBatching,         \* state.isBatching
    batch,              \* state.batch
    offlineOperations,  \* state.offlineOperations (a Map: insertion ordered)
    presenceAliased,    \* state.buffer.presence.data is the very object state.me
    authPending,        \* auth promises of effects.authenticate not yet settled
    now,                \* Date.now()
    trace,              \* what the running (last) handler did: frames, listener calls
    opIdLog,            \* every id generateOpId has returned, in order, with the
                        \* value of opens and whether the socket was OPEN then,
                        \* and whether a frame has carried it since
    opens,              \* the times the socket has opened
    getInitialStatePromise, \* _getInitialStatePromise: null, pending or resolved
    fetchedOn,          \* the opening of the socket on which the server got a
                        \* FETCH_STORAGE it has not answered yet, or 0
    listeners,          \* state.listeners: the callbacks of each registry, in order
    connLog             \* since the last connect() or disconnect() of the user:
                        \* the state it was called in, the call, and the
                        \* states updateConnection has set, in order, with
                        \* the close events of the socket among them

vars == << connection, token, lastConnectionId, socket, lastFlushTime, buffer,
           timeoutHandles, intervalHandles, me, others, users, numberOfRetry,
           clock, opClock, root, undoStack, redoStack, isHistoryPaused,
           pausedHistory,
           isBatching, batch, offlineOperations, presenceAliased, authPending,
           now, trace, opIdLog, opens, getInitialStatePromise, fetchedOn,
           listeners, connLog >>

----------------------------------------------------------------------------
(* Bounds of the model and constants of the program.                        *)

\* addToUndoStack: "if (state.undoStack.length >= 50)"
UndoStackCap == 50

\* context.throttleDelay, in clock ticks
ThrottleDelay == 1

\* presence and storage values are 0..MaxVal
MaxVal == 1

\* the clock runs from ThrottleDelay + 1 to ThrottleDelay + 1 + MaxTime
MaxTime == 2

\* entries kept on the redo stack in the history-bound specification
MaxRedo == 2

\* history entries (undo + redo) in the specifications that bound the history
MaxHistory == 2

\* mutations made inside one batch
MaxBatch == 2

\* items collected while the history is paused
MaxPaused == 2

\* op ids generated in one behaviour
MaxOps == 2

\* times an op comes in one inbound UPDATE_STORAGE message
MaxMsgOps == 2

\* failed connection attempts in a row
MaxRetry == 1

\* times the socket opens in one behaviour
MaxOpens == 2

\* messages waiting in state.buffer.messages when a USER_JOINED comes
MaxQueued == 2

\* lastConnectionId: null ; state.token: null
NullId == -1

\* timeoutHandles.flush: null, or no flush timer pending
NoTimer == -1

PresenceKeys == {"x", "y"}
StorageKeys == {"a"}
Vals == 0 .. MaxVal
SelfActors == {1, 2}
OtherActors == {7, 8}
RootId == "root"

\* the keys of state.listeners
Registries == {"event", "others", "my-presence", "error", "connection",
               "storage", "history"}

\* a callback is a function of the application, or the n-th function made
\* around it; second === undefined
Fn(name) == << name, 0 >>
Undefined == Fn("undefined")
App == Fn("app")

----------------------------------------------------------------------------
(* Helpers: JS objects are functions on their keys.                         *)

EmptyData == [k \in {} |-> 0]

\* { ...a, ...b }  and  for (key in b) a[key] = b[key]
Merge(a, b) ==
    [k \in (DOMAIN a) \cup (DOMAIN b) |-> IF k \in DOMAIN b THEN b[k] ELSE a[k]]

Last(s) == s[Len(s)]
Front(s) == SubSeq(s, 1, Len(s) - 1)

NullPresence == [type |-> "null", data |-> EmptyData]
EmptyBuffer == [presence |-> NullPresence, messages |-> << >>,
                storageOperations |-> << >>]
EmptyBatch == [ops |-> << >>, reverseOps |-> << >>,
               updates |-> [others |-> << >>, presence |-> FALSE,
                            storageUpdates |-> EmptyData]]
NoSnapshot == [valid |-> FALSE, me |-> EmptyData, root |-> EmptyData,
               undo |-> 0, redo |-> 0, offline |-> {}, users |-> EmptyData,
               socket |-> "null", lastFlushTime |-> 0, ids |-> 0,
               presence |-> NullPresence, connection |-> "closed",
               retries |-> 0, log |-> 0, pending |-> 0, pong |-> FALSE,
               clock |-> 0,
               listeners |-> [r \in Registries |-> << >>]]
\* op: the handler; sent: the frames it sent; calls: the listener calls it
\* made; applied: the ops it applied, with their sources; pushes: the entries
\* it pushed on the undo stack; before: the state it started from; restores:
\* for an undo right after a mutation that pushed an entry, the state before
\* that mutation, when all of it was historied; mutations, historied,
\* presence, storageKeys: what the callback of a batch has done so far;
\* input: the argument of the handler (the messages of the frame, the
\* overrides of updatePresence); threw: the message of the Error the call
\* threw; socketClosed: the handler detached the handlers of the socket and
\* closed it
EmptyTrace == [op |-> "init", input |-> << >>, sent |-> << >>, calls |-> << >>,
               applied |-> << >>, threw |-> "", socketClosed |-> FALSE,
               invoked |-> << >>, ids |-> << >>, leaked |-> 0,
               pushes |-> 0, before |-> NoSnapshot, restores |-> NoSnapshot,
               mutations |-> 0, historied |-> 0, presence |-> FALSE,
               storageKeys |-> {}]
\* nodes: the live objects created under the root, with their parents
NoRoot == [loaded |-> FALSE, data |-> EmptyData, nodes |-> EmptyData]

\* the machine record of the current state
Cur ==
    [ connection |-> connection, token |-> token,
      lastConnectionId |-> lastConnectionId, socket |-> socket,
      lastFlushTime |-> lastFlushTime, buffer |-> buffer,
      timeoutHandles |-> timeoutHandles, intervalHandles |-> intervalHandles,
      me |-> me, others |-> others, users |-> users,
      numberOfRetry |-> numberOfRetry, clock |-> clock, opClock |-> opClock,
      root |-> root,
      undoStack |-> undoStack, redoStack |-> redoStack,
      isHistoryPaused |-> isHistoryPaused, pausedHistory |-> pausedHistory,
      isBatching |-> isBatching, batch |-> batch,
      offlineOperations |-> offlineOperations,
      presenceAliased |-> presenceAliased, authPending |-> authPending,
      now |-> now, trace |-> trace, opIdLog |-> opIdLog, opens |-> opens,
      getInitialStatePromise |-> getInitialStatePromise, fetchedOn |-> fetchedOn,
      listeners |-> listeners, connLog |-> connLog ]

\* the next state is the machine record m
Becomes(m) ==
    \E n \in {m} :
    /\ connection' = n.connection
    /\ token' = n.token
    /\ lastConnectionId' = n.lastConnectionId
    /\ socket' = n.socket
    /\ lastFlushTime' = n.lastFlushTime
    /\ buffer' = n.buffer
    /\ timeoutHandles' = n.timeoutHandles
    /\ intervalHandles' = n.intervalHandles
    /\ me' = n.me
    /\ others' = n.others
    /\ users' = n.users
    /\ numberOfRetry' = n.numberOfRetry
    /\ clock' = n.clock
    /\ opClock' = n.opClock
    /\ root' = n.root
    /\ undoStack' = n.undoStack
    /\ redoStack' = n.redoStack
    /\ isHistoryPaused' = n.isHistoryPaused
    /\ pausedHistory' = n.pausedHistory
    /\ isBatching' = n.isBatching
    /\ batch' = n.batch
    /\ offlineOperations' = n.offlineOperations
    /\ presenceAliased' = n.presenceAliased
    /\ authPending' = n.authPending
    /\ now' = n.now
    /\ trace' = n.trace
    /\ opIdLog' = n.opIdLog
    /\ getInitialStatePromise' = n.getInitialStatePromise
    /\ fetchedOn' = n.fetchedOn
    /\ opens' = n.opens
    /\ listeners' = n.listeners
    /\ connLog' = n.connLog

Snapshot ==
    [valid |-> TRUE, me |-> me, root |-> root.data, undo |-> Len(undoStack),
     redo |-> Len(redoStack),
     offline |-> { offlineOperations[i].opId : i \in 1 .. Len(offlineOperations) },
     users |-> users, socket |-> socket, lastFlushTime |-> lastFlushTime,
     ids |-> Len(opIdLog), presence |-> buffer.presence,
     connection |-> connection.state, retries |-> numberOfRetry,
     log |-> Len(connLog), pending |-> authPending,
     pong |-> timeoutHandles.pongTimeout, clock |-> clock,
     listeners |-> listeners]

\* a handler named op starts running on the current state
Begin(op) == [Cur EXCEPT !.trace = [EmptyTrace EXCEPT !.op = op, !.before = Snapshot]]

\* a mutation made by the callback of the running batch
InBatch(historied, keys) ==
    [Cur EXCEPT !.trace.mutations = @ + 1,
                !.trace.historied = @ + (IF historied THEN 1 ELSE 0),
                !.trace.presence = @ \/ keys = {},
                !.trace.storageKeys = @ \cup keys]

\* the effects object and the listeners, as records of what they were given
\* the opIds of the ops of the UPDATE_STORAGE messages of a frame
FrameOpIds(frame) ==
    UNION { { frame.messages[i].ops[j].opId : j \in 1 .. Len(frame.messages[i].ops) } :
            i \in { n \in 1 .. Len(frame.messages) :
                        frame.messages[n].type = "UPDATE_STORAGE" } }

\* effects.send(messages): the frame goes out, and the ids of its ops are
\* known to the server from now on
Send(m, frame) ==
    [m EXCEPT !.trace.sent = Append(@, frame),
              !.fetchedOn = IF \E i \in 1 .. Len(frame.messages) :
                                  frame.messages[i].type = "FETCH_STORAGE"
                            THEN m.opens ELSE @,
              !.opIdLog = [i \in 1 .. Len(m.opIdLog) |->
                              IF m.opIdLog[i].opId \in FrameOpIds(frame)
                              THEN [m.opIdLog[i] EXCEPT !.sent = TRUE]
                              ELSE m.opIdLog[i]]]
\* throw new Error(message)
Throw(m, message) == [m EXCEPT !.trace.threw = message]

\* for (const listener of state.listeners[r]) listener(...): one call for
\* each callback of the registry; the resolver of getStorage is no registry
Call(m, listenerCall) ==
    IF listenerCall.listener \in Registries
    THEN [m EXCEPT !.trace.calls =
                       @ \o [i \in 1 .. Len(m.listeners[listenerCall.listener]) |->
                                listenerCall],
                   !.trace.invoked =
                       @ \o [i \in 1 .. Len(m.listeners[listenerCall.listener]) |->
                                << listenerCall.listener,
                                   m.listeners[listenerCall.listener][i] >>]]
    ELSE [m EXCEPT !.trace.calls = Append(@, listenerCall)]

----------------------------------------------------------------------------
(* defaultState(initialPresence, initialStorage), initialPresence given     *)
(* (the same object is state.me and state.buffer.presence.data) and no      *)
(* initialStorage; the application has subscribed one callback to each      *)
(* registry of state.listeners.                                             *)

InitialPresence == [k \in PresenceKeys |-> 0]

Init ==
    /\ connection = [state |-> "closed"]
    /\ token = NullId
    /\ lastConnectionId = NullId
    /\ socket = "null"
    /\ lastFlushTime = 0
    /\ buffer = [presence |-> [type |-> "full", data |-> InitialPresence],
                 messages |-> << >>, storageOperations |-> << >>]
    /\ timeoutHandles = [flush |-> NoTimer, reconnect |-> NoTimer,
                         pongTimeout |-> FALSE]
    /\ intervalHandles = [heartbeat |-> FALSE]
    /\ me = InitialPresence
    /\ others = EmptyData
    /\ users = EmptyData
    /\ numberOfRetry = 0
    /\ clock = 0
    /\ opClock = 0
    /\ root = NoRoot
    /\ undoStack = << >>
    /\ redoStack = << >>
    /\ isHistoryPaused = FALSE
    /\ pausedHistory = << >>
    /\ isBatching = FALSE
    /\ batch = EmptyBatch
    /\ offlineOperations = << >>
    /\ presenceAliased = TRUE
    /\ authPending = 0
    /\ now = ThrottleDelay + 1
    /\ trace = EmptyTrace
    /\ opIdLog = << >>
    /\ getInitialStatePromise = "null"
    /\ fetchedOn = 0
    /\ opens = 0
    /\ listeners = [r \in Registries |-> << App >>]
    /\ connLog = << "closed" >>

----------------------------------------------------------------------------
(* Listeners.                                                               *)

canUndo(m) == Len(m.undoStack) > 0
canRedo(m) == Len(m.redoStack) > 0

onHistoryChange(m) ==
    Call(m, [listener |-> "history", canUndo |-> canUndo(m), canRedo |-> canRedo(m)])

\* makeOthers: the users without _hasReceivedInitialPresence
makeOthers(userMap) ==
    [a \in DOMAIN userMap |->
        [k \in (DOMAIN userMap[a]) \ {"_hasReceivedInitialPresence"} |-> userMap[a][k]]]

RECURSIVE CallOthers(_, _, _)
CallOthers(m, otherEvents, i) ==
    IF i > Len(otherEvents) THEN m
    ELSE CallOthers(Call(m, [listener |-> "others", event |-> otherEvents[i]]),
                    otherEvents, i + 1)

notify(m, storageUpdates, presence, otherEvents) ==
    LET m1 == IF Len(otherEvents) > 0
              THEN CallOthers([m EXCEPT !.others = makeOthers(m.users)], otherEvents, 1)
              ELSE m
        m2 == IF presence THEN Call(m1, [listener |-> "my-presence", me |-> m1.me])
              ELSE m1
    IN  IF DOMAIN storageUpdates # {}
        THEN Call(m2, [listener |-> "storage", updates |-> storageUpdates])
        ELSE m2

\* utils.mergeStorageUpdates on LiveObject updates: the updated keys are united
mergeStorageUpdates(all, id, update) ==
    IF id \in DOMAIN all
    THEN [all EXCEPT ![id] = [@ EXCEPT !.updates = @ \cup update.updates]]
    ELSE Merge(all, id :> update)

RECURSIVE mergeAllStorageUpdates(_, _)
mergeAllStorageUpdates(all, more) ==
    IF DOMAIN more = {} THEN all
    ELSE LET id == CHOOSE i \in DOMAIN more : TRUE
         IN  mergeAllStorageUpdates(mergeStorageUpdates(all, id, more[id]),
                                    [i \in (DOMAIN more) \ {id} |-> more[i]])

----------------------------------------------------------------------------
(* The flush scheduler.                                                     *)

\* Map.set(op.opId, op) on the insertion-ordered offlineOperations
OfflineSet(offline, op) ==
    IF \E i \in 1 .. Len(offline) : offline[i].opId = op.opId
    THEN [i \in 1 .. Len(offline) |->
             IF offline[i].opId = op.opId THEN op ELSE offline[i]]
    ELSE Append(offline, op)

RECURSIVE OfflineSetAll(_, _)
OfflineSetAll(offline, ops) ==
    IF ops = << >> THEN offline
    ELSE OfflineSetAll(OfflineSet(offline, Head(ops)), Tail(ops))

OfflineIds(offline) == { offline[i].opId : i \in 1 .. Len(offline) }

\* a delete that removes nothing
OfflineDeleteNothing(offline, opId) == offline

\* Map.delete(opId)
OfflineDelete(offline, opId) ==
    SelectSeq(offline, LAMBDA op : op.opId # opId)

\* flushDataToMessages that sends a full presence as a patch
flushDataToMessagesPatch(m) ==
    LET presence ==
            IF m.buffer.presence.type = "null" THEN << >>
            ELSE << [type |-> "UPDATE_PRESENCE", data |-> m.buffer.presence.data] >>
        storage ==
            IF Len(m.buffer.storageOperations) > 0
            THEN << [type |-> "UPDATE_STORAGE", ops |-> m.buffer.storageOperations] >>
            ELSE << >>
    IN  presence \o m.buffer.messages \o storage

\* flushDataToMessages that puts the storage ops before the client messages
flushDataToMessagesStorageFirst(m) ==
    LET presence ==
            IF m.buffer.presence.type = "null" THEN << >>
            ELSE IF m.buffer.presence.type = "full"
                 THEN << [type |-> "UPDATE_PRESENCE", targetActor |-> -1,
                          data |-> m.buffer.presence.data] >>
                 ELSE << [type |-> "UPDATE_PRESENCE",
                          data |-> m.buffer.presence.data] >>
        storage ==
            IF Len(m.buffer.storageOperations) > 0
            THEN << [type |-> "UPDATE_STORAGE", ops |-> m.buffer.storageOperations] >>
            ELSE << >>
    IN  presence \o storage \o m.buffer.messages

flushDataToMessages(m) ==
    LET presence ==
            IF m.buffer.presence.type = "null" THEN << >>
            ELSE IF m.buffer.presence.type = "full"
                 THEN << [type |-> "UPDATE_PRESENCE", targetActor |-> -1,
                          data |-> m.buffer.presence.data] >>
                 ELSE << [type |-> "UPDATE_PRESENCE",
                          data |-> m.buffer.presence.data] >>
        storage ==
            IF Len(m.buffer.storageOperations) > 0
            THEN << [type |-> "UPDATE_STORAGE", ops |-> m.buffer.storageOperations] >>
            ELSE << >>
    IN  presence \o m.buffer.messages \o storage

\* tryFlushing that sends whatever the time elapsed since the last flush
tryFlushingUnthrottled(m) ==
    LET m1 == [m EXCEPT !.offlineOperations =
                            OfflineSetAll(@, m.buffer.storageOperations)]
        messages == flushDataToMessages(m1)
    IN  IF m1.socket # "OPEN"
        THEN [m1 EXCEPT !.buffer.storageOperations = << >>]
        ELSE IF Len(messages) = 0 THEN m1
             ELSE [Send(m1, [by |-> "tryFlushing", at |-> m1.now,
                             messages |-> messages])
                      EXCEPT !.buffer = EmptyBuffer,
                             !.presenceAliased = FALSE,
                             !.lastFlushTime = m1.now]

\* tryFlushing that keeps the storage ops buffered while the socket is down
tryFlushingKeepsOps(m) ==
    LET m1 == [m EXCEPT !.offlineOperations =
                            OfflineSetAll(@, m.buffer.storageOperations)]
        elapsedTime == m1.now - m1.lastFlushTime
        messages == flushDataToMessages(m1)
    IN  IF m1.socket # "OPEN"
        THEN m1
        ELSE IF elapsedTime > ThrottleDelay
             THEN IF Len(messages) = 0 THEN m1
                  ELSE [Send(m1, [by |-> "tryFlushing", at |-> m1.now,
                                  messages |-> messages])
                           EXCEPT !.buffer = EmptyBuffer,
                                  !.presenceAliased = FALSE,
                                  !.lastFlushTime = m1.now]
             ELSE [m1 EXCEPT !.timeoutHandles.flush =
                                 m1.now + (ThrottleDelay - (m1.now - m1.lastFlushTime))]

tryFlushing(m) ==
    LET m1 == [m EXCEPT !.offlineOperations =
                            OfflineSetAll(@, m.buffer.storageOperations)]
        elapsedTime == m1.now - m1.lastFlushTime
        messages == flushDataToMessages(m1)
    IN  IF m1.socket # "OPEN"
        THEN [m1 EXCEPT !.buffer.storageOperations = << >>]
        ELSE IF elapsedTime > ThrottleDelay
             THEN IF Len(messages) = 0 THEN m1
                  ELSE [Send(m1, [by |-> "tryFlushing", at |-> m1.now,
                                  messages |-> messages])
                           EXCEPT !.buffer = EmptyBuffer,
                                  !.presenceAliased = FALSE,
                                  !.lastFlushTime = m1.now]
             ELSE [m1 EXCEPT !.timeoutHandles.flush =
                                 m1.now + (ThrottleDelay - (m1.now - m1.lastFlushTime))]

dispatch(m, ops) ==
    tryFlushing([m EXCEPT !.buffer.storageOperations = @ \o ops])

\* the promise is made once; FETCH_STORAGE is queued when it is made
startLoadingStorage(m) ==
    IF m.getInitialStatePromise = "null"
    THEN [tryFlushing([m EXCEPT !.buffer.messages =
                                    Append(@, [type |-> "FETCH_STORAGE"])])
             EXCEPT !.getInitialStatePromise = "pending"]
    ELSE m

\* with a root the promise returned is resolved at once
getStorage(m) == IF m.root.loaded THEN m ELSE startLoadingStorage(m)

getStorageSnapshot(m) == IF m.root.loaded THEN m ELSE startLoadingStorage(m)

----------------------------------------------------------------------------
(* History.                                                                 *)

addToUndoStack(m, historyItem) ==
    LET m1 == IF Len(m.undoStack) >= UndoStackCap
              THEN [m EXCEPT !.undoStack = Tail(@)]
              ELSE m
    IN  IF m1.isHistoryPaused
        THEN [m1 EXCEPT !.pausedHistory = historyItem \o @]
        ELSE onHistoryChange([m1 EXCEPT !.undoStack = Append(@, historyItem),
                                        !.trace.pushes = @ + 1])

\* storageDispatch that forgets "state.redoStack = []"
storageDispatchKeepsRedo(m, ops, reverse, storageUpdates) ==
    IF m.isBatching
    THEN [m EXCEPT !.batch.ops = @ \o ops,
                   !.batch.updates.storageUpdates =
                       mergeAllStorageUpdates(@, storageUpdates),
                   !.batch.reverseOps = @ \o reverse]
    ELSE notify(dispatch(addToUndoStack(m, reverse), ops), storageUpdates,
                FALSE, << >>)

storageDispatch(m, ops, reverse, storageUpdates) ==
    IF m.isBatching
    THEN [m EXCEPT !.batch.ops = @ \o ops,
                   !.batch.updates.storageUpdates =
                       mergeAllStorageUpdates(@, storageUpdates),
                   !.batch.reverseOps = @ \o reverse]
    ELSE LET m1 == addToUndoStack(m, reverse)
             m2 == [m1 EXCEPT !.redoStack = << >>]
             m3 == dispatch(m2, ops)
         IN  notify(m3, storageUpdates, FALSE, << >>)

getConnectionId(m) ==
    IF m.connection.state \in {"open", "connecting"}
    THEN m.connection.id
    ELSE m.lastConnectionId

\* generateOpId with a clock that starts again each time the socket opens
generateOpIdPerConnection(m) ==
    LET count == Cardinality({ i \in 1 .. Len(m.opIdLog) :
                                  m.opIdLog[i].opens = m.opens })
        opId == << getConnectionId(m), count >>
    IN  [m |-> [m EXCEPT !.opClock = @ + 1,
                         !.opIdLog = Append(@, [opId |-> opId, opens |-> m.opens,
                                                open |-> m.socket = "OPEN",
                                                sent |-> FALSE])],
         opId |-> opId]

\* `${getConnectionId()}:${state.clock++}`
generateId(m) ==
    LET id == << getConnectionId(m), m.clock >>
    IN  [m |-> [m EXCEPT !.clock = @ + 1, !.trace.ids = Append(@, id)],
         id |-> id]

\* `${getConnectionId()}:${state.opClock++}`
generateOpId(m) ==
    LET opId == << getConnectionId(m), m.opClock >>
    IN  [m |-> [m EXCEPT !.opClock = @ + 1,
                         !.opIdLog = Append(@, [opId |-> opId, opens |-> m.opens,
                                                open |-> m.socket = "OPEN",
                                                sent |-> FALSE])],
         opId |-> opId]

----------------------------------------------------------------------------
(* The op engine and the apply loop.                                        *)

WithOpId(op, opId) == Merge(op, "opId" :> opId)

\* LiveObject._apply for UPDATE_OBJECT: the keys of op.data are set, the
\* reverse is the UPDATE_OBJECT of their old values (with no opId)
LiveObjectApply(m, op, isLocal) ==
    [m |-> [m EXCEPT !.root.data = Merge(@, op.data)],
     modified |-> TRUE,
     node |-> op.id,
     parentId |-> "",
     update |-> [type |-> "LiveObject", updates |-> DOMAIN op.data],
     reverse |-> << [type |-> "UPDATE_OBJECT", id |-> op.id,
                     data |-> [k \in DOMAIN op.data |-> m.root.data[k]]] >>]

NotModified(m) ==
    [m |-> m, modified |-> FALSE, node |-> "", parentId |-> "",
     update |-> [type |-> "LiveObject", updates |-> {}], reverse |-> << >>]

\* state.items.get(id)
HasItem(m, id) == m.root.loaded /\ (id = RootId \/ id \in DOMAIN m.root.nodes)

\* LiveObject._apply for UPDATE_OBJECT on a live object created under the root
NodeApply(m, op) ==
    LET node == m.root.nodes[op.id]
    IN  [m |-> [m EXCEPT !.root.nodes[op.id].data = Merge(@, op.data)],
         modified |-> TRUE,
         node |-> op.id,
         parentId |-> node.parent,
         update |-> [type |-> "LiveObject", updates |-> DOMAIN op.data],
         reverse |-> << [type |-> "UPDATE_OBJECT", id |-> op.id,
                         data |-> [k \in DOMAIN op.data |-> node.data[k]]] >>]

\* parent._attachChild for CREATE_OBJECT: the new object is registered under
\* its parent; it is the modified node, and the reverse deletes it
AttachChild(m, op) ==
    IF HasItem(m, op.id) THEN NotModified(m)
    ELSE [m |-> [m EXCEPT !.root.nodes =
                              Merge(@, op.id :> [parent |-> op.parentId,
                                                 data |-> op.data])],
          modified |-> TRUE,
          node |-> op.id,
          parentId |-> op.parentId,
          update |-> [type |-> "LiveObject", updates |-> DOMAIN op.data],
          reverse |-> << [type |-> "DELETE_CRDT", id |-> op.id] >>]

applyOp(m, op, source) ==
    IF op.type = "UPDATE_OBJECT"
    THEN IF ~HasItem(m, op.id) THEN NotModified(m)
         ELSE IF op.id = RootId
              THEN LiveObjectApply(m, op, source = "UNDOREDO_RECONNECT")
              ELSE NodeApply(m, op)
    ELSE IF op.type = "CREATE_OBJECT"
         THEN IF "parentId" \notin DOMAIN op THEN NotModified(m)
              ELSE IF ~HasItem(m, op.parentId) THEN NotModified(m)
              ELSE AttachChild(m, op)
    ELSE NotModified(m)

\* one iteration of the loop of apply; acc holds the machine, result and
\* createdNodeIds, and the items as the loop leaves them (opId assigned)
\* applyItem that queues the presence item in place of what is queued
applyItemReplacesBuffer(acc, op, isLocal) ==
    IF op.type = "presence"
    THEN LET reverse == [type |-> "presence",
                         data |-> [k \in DOMAIN op.data |-> acc.m.me[k]]]
             m1 == [acc.m EXCEPT !.me = Merge(@, op.data),
                                 !.presenceAliased = FALSE]
             m2 == [m1 EXCEPT !.buffer.presence =
                                  [type |-> "partial", data |-> op.data]]
         IN  [acc EXCEPT !.m = m2,
                         !.reverse = << reverse >> \o @,
                         !.presence = TRUE,
                         !.items = Append(@, op)]
    ELSE LET g == IF "opId" \in DOMAIN op
                  THEN [m |-> acc.m, opId |-> op.opId]
                  ELSE generateOpId(acc.m)
             op1 == WithOpId(op, g.opId)
             deleted == ~isLocal /\ g.opId \in OfflineIds(g.m.offlineOperations)
             source == IF isLocal THEN "UNDOREDO_RECONNECT"
                       ELSE IF deleted THEN "ACK" ELSE "REMOTE"
             m1 == IF isLocal THEN g.m
                   ELSE [g.m EXCEPT !.offlineOperations = OfflineDelete(@, g.opId)]
             m2 == [m1 EXCEPT !.trace.applied =
                                  Append(@, [opId |-> g.opId, source |-> source])]
             r == applyOp(m2, op1, source)
             notified == r.parentId = "" \/ r.parentId \notin acc.createdNodeIds
         IN  IF ~r.modified
             THEN [acc EXCEPT !.m = r.m, !.items = Append(@, op1)]
             ELSE [acc EXCEPT
                     !.m = r.m,
                     !.items = Append(@, op1),
                     !.storageUpdates =
                         IF notified THEN mergeStorageUpdates(@, r.node, r.update)
                         ELSE @,
                     !.reverse = IF notified THEN r.reverse \o @ ELSE @,
                     !.createdNodeIds =
                         IF op.type \in {"CREATE_LIST", "CREATE_MAP", "CREATE_OBJECT"}
                         THEN @ \cup {r.node} ELSE @]

applyItem(acc, op, isLocal) ==
    IF op.type = "presence"
    THEN LET reverse == [type |-> "presence",
                         data |-> [k \in DOMAIN op.data |-> acc.m.me[k]]]
             m1 == [acc.m EXCEPT !.me = Merge(@, op.data),
                                 !.presenceAliased = FALSE]
             m2 == IF m1.buffer.presence.type = "null"
                   THEN [m1 EXCEPT !.buffer.presence =
                                       [type |-> "partial", data |-> op.data]]
                   ELSE [m1 EXCEPT !.buffer.presence.data = Merge(@, op.data)]
         IN  [acc EXCEPT !.m = m2,
                         !.reverse = << reverse >> \o @,
                         !.presence = TRUE,
                         !.items = Append(@, op)]
    ELSE LET g == IF "opId" \in DOMAIN op
                  THEN [m |-> acc.m, opId |-> op.opId]
                  ELSE generateOpId(acc.m)
             op1 == WithOpId(op, g.opId)
             deleted == ~isLocal /\ g.opId \in OfflineIds(g.m.offlineOperations)
             source == IF isLocal THEN "UNDOREDO_RECONNECT"
                       ELSE IF deleted THEN "ACK" ELSE "REMOTE"
             m1 == IF isLocal THEN g.m
                   ELSE [g.m EXCEPT !.offlineOperations = OfflineDelete(@, g.opId)]
             m2 == [m1 EXCEPT !.trace.applied =
                                  Append(@, [opId |-> g.opId, source |-> source])]
             r == applyOp(m2, op1, source)
             notified == r.parentId = "" \/ r.parentId \notin acc.createdNodeIds
         IN  IF ~r.modified
             THEN [acc EXCEPT !.m = r.m, !.items = Append(@, op1)]
             ELSE [acc EXCEPT
                     !.m = r.m,
                     !.items = Append(@, op1),
                     !.storageUpdates =
                         IF notified THEN mergeStorageUpdates(@, r.node, r.update)
                         ELSE @,
                     !.reverse = IF notified THEN r.reverse \o @ ELSE @,
                     !.createdNodeIds =
                         IF op.type \in {"CREATE_LIST", "CREATE_MAP", "CREATE_OBJECT"}
                         THEN @ \cup {r.node} ELSE @]

\* the loop of apply (the singleton sets name a value that is computed once)
RECURSIVE applyLoop(_, _, _, _)
applyLoop(acc, item, i, isLocal) ==
    IF i > Len(item) THEN acc
    ELSE CHOOSE result \in { applyLoop(next, item, i + 1, isLocal) :
                                next \in { applyItem(acc, item[i], isLocal) } } : TRUE

apply(m, item, isLocal) ==
    applyLoop([m |-> m, reverse |-> << >>, storageUpdates |-> EmptyData,
               presence |-> FALSE, createdNodeIds |-> {}, items |-> << >>],
              item, 1, isLocal)

----------------------------------------------------------------------------
(* Presence, undo and redo, batch, pause and resume.                        *)

\* updatePresence that does not look at state.isBatching
updatePresenceUnbatched(m, overrides, addToHistory) ==
    LET m0 == IF m.buffer.presence.type = "null"
              THEN [m EXCEPT !.buffer.presence =
                                 [type |-> "partial", data |-> EmptyData],
                             !.presenceAliased = FALSE]
              ELSE m
        oldValues == [k \in DOMAIN overrides |->
                         IF m0.presenceAliased THEN overrides[k] ELSE m0.me[k]]
        m1 == [m0 EXCEPT !.buffer.presence.data = Merge(@, overrides),
                         !.me = Merge(@, overrides),
                         !.presenceAliased = FALSE]
        m2 == tryFlushing(m1)
        m3 == IF addToHistory
              THEN addToUndoStack(m2, << [type |-> "presence", data |-> oldValues] >>)
              ELSE m2
    IN  notify(m3, EmptyData, TRUE, << >>)

updatePresence(m, overrides, addToHistory) ==
    LET m0 == IF m.buffer.presence.type = "null"
              THEN [m EXCEPT !.buffer.presence =
                                 [type |-> "partial", data |-> EmptyData],
                             !.presenceAliased = FALSE]
              ELSE m
        \* "buffer.presence.data[key] = overrideValue" comes before
        \* "oldValues[key] = state.me[key]": when both are one object, the
        \* old value read is the new one
        oldValues == [k \in DOMAIN overrides |->
                         IF m0.presenceAliased THEN overrides[k] ELSE m0.me[k]]
        m1 == [m0 EXCEPT !.buffer.presence.data = Merge(@, overrides),
                         !.me = Merge(@, overrides),
                         !.presenceAliased = FALSE]
        item == [type |-> "presence", data |-> oldValues]
    IN  IF m1.isBatching
        THEN [m1 EXCEPT !.batch.reverseOps =
                            IF addToHistory THEN Append(@, item) ELSE @,
                        !.batch.updates.presence = TRUE]
        ELSE LET m2 == tryFlushing(m1)
                 m3 == IF addToHistory THEN addToUndoStack(m2, << item >>) ELSE m2
             IN  notify(m3, EmptyData, TRUE, << >>)

StorageOpsOf(item) == SelectSeq(item, LAMBDA op : op.type # "presence")

undo(m) ==
    IF m.isBatching THEN Throw(m, "undo is not allowed during a batch")
    ELSE IF m.undoStack = << >> THEN m
    ELSE LET historyItem == Last(m.undoStack)
             m1 == [m EXCEPT !.undoStack = Front(@), !.isHistoryPaused = FALSE]
             result == apply(m1, historyItem, TRUE)
             m2 == notify(result.m, result.storageUpdates, result.presence, << >>)
             m3 == onHistoryChange([m2 EXCEPT !.redoStack = Append(@, result.reverse)])
         IN  tryFlushing([m3 EXCEPT !.buffer.storageOperations =
                                        @ \o StorageOpsOf(result.items)])

redo(m) ==
    IF m.isBatching THEN Throw(m, "redo is not allowed during a batch")
    ELSE IF m.redoStack = << >> THEN m
    ELSE LET historyItem == Last(m.redoStack)
             m1 == [m EXCEPT !.redoStack = Front(@), !.isHistoryPaused = FALSE]
             result == apply(m1, historyItem, TRUE)
             m2 == notify(result.m, result.storageUpdates, result.presence, << >>)
             m3 == onHistoryChange([m2 EXCEPT !.undoStack = Append(@, result.reverse),
                                              !.trace.pushes = @ + 1])
         IN  tryFlushing([m3 EXCEPT !.buffer.storageOperations =
                                        @ \o StorageOpsOf(result.items)])

\* batch(callback) up to the call of callback
\* batch that lets a batch start inside a batch
batchEnterNested(m) == [m EXCEPT !.isBatching = TRUE]

batchEnter(m) ==
    IF m.isBatching THEN Throw(m, "batch should not be called during a batch")
    ELSE [m EXCEPT !.isBatching = TRUE]

\* the finally block of batch
batchFinally(m) ==
    LET m1 == [m EXCEPT !.isBatching = FALSE]
        m2 == IF Len(m1.batch.reverseOps) > 0
              THEN addToUndoStack(m1, m1.batch.reverseOps)
              ELSE m1
        m3 == IF Len(m2.batch.ops) > 0 THEN [m2 EXCEPT !.redoStack = << >>] ELSE m2
        m4 == IF Len(m3.batch.ops) > 0 THEN dispatch(m3, m3.batch.ops) ELSE m3
        m5 == notify(m4, m4.batch.updates.storageUpdates, m4.batch.updates.presence,
                     m4.batch.updates.others)
    IN  tryFlushing([m5 EXCEPT !.batch = EmptyBatch])

pauseHistory(m) == [m EXCEPT !.pausedHistory = << >>, !.isHistoryPaused = TRUE]

resumeHistory(m) ==
    LET m1 == [m EXCEPT !.isHistoryPaused = FALSE]
        m2 == IF Len(m1.pausedHistory) > 0
              THEN addToUndoStack(m1, m1.pausedHistory)
              ELSE m1
    IN  [m2 EXCEPT !.pausedHistory = << >>]

\* LiveObject.set(key, value) on the root: the op gets a fresh opId and goes,
\* with its reverse and its update, to the dispatch callback (storageDispatch)
LiveObjectSet(m, key, value) ==
    LET g == generateOpId(m)
        op == [type |-> "UPDATE_OBJECT", id |-> RootId, data |-> key :> value,
               opId |-> g.opId]
        reverse == [type |-> "UPDATE_OBJECT", id |-> RootId,
                    data |-> key :> m.root.data[key]]
        m1 == [g.m EXCEPT !.root.data = Merge(@, key :> value)]
    IN  storageDispatch(m1, << op >>, << reverse >>,
                        RootId :> [type |-> "LiveObject", updates |-> {key}])

----------------------------------------------------------------------------
(* The connection.                                                          *)

BACKOFF_RETRY_DELAYS == << 250, 500, 1000, 2000, 4000, 8000, 10000 >>
BACKOFF_RETRY_DELAYS_SLOW == << 2000, 30000, 60000, 300000 >>

\* WebsocketCloseCodes.CLOSE_WITHOUT_RETRY
CLOSE_WITHOUT_RETRY == 4999

updateConnection(m, conn) ==
    Call([m EXCEPT !.connection = conn, !.connLog = Append(@, conn.state)],
         [listener |-> "connection", state |-> conn.state])

\* the arrays are indexed from 0, the sequences from 1
getRetryDelay(m, slow) ==
    IF slow
    THEN BACKOFF_RETRY_DELAYS_SLOW[
             (IF m.numberOfRetry < Len(BACKOFF_RETRY_DELAYS_SLOW)
              THEN m.numberOfRetry
              ELSE Len(BACKOFF_RETRY_DELAYS_SLOW) - 1) + 1]
    ELSE BACKOFF_RETRY_DELAYS[
             (IF m.numberOfRetry < Len(BACKOFF_RETRY_DELAYS)
              THEN m.numberOfRetry
              ELSE Len(BACKOFF_RETRY_DELAYS) - 1) + 1]

\* token.actor is the actor; the new socket has readyState CONNECTING
authenticationSuccess(m, actor) ==
    [updateConnection(m, [state |-> "connecting", id |-> actor])
        EXCEPT !.socket = "CONNECTING"]

\* effects.scheduleReconnect(delay): the handle is overwritten, and a timer
\* it stood for that is still pending goes on without a handle
scheduleReconnect(m, delay) ==
    [m EXCEPT !.timeoutHandles.reconnect = delay,
              !.trace.leaked = @ + (IF m.timeoutHandles.reconnect # NoTimer
                                    THEN 1 ELSE 0)]

authenticationFailure(m) ==
    LET m1 == updateConnection([m EXCEPT !.token = NullId],
                               [state |-> "unavailable"])
        m2 == [m1 EXCEPT !.numberOfRetry = @ + 1]
    IN  scheduleReconnect(m2, getRetryDelay(m2, FALSE))

\* effects.authenticate: a cached token that has not expired connects at
\* once, otherwise the auth endpoint is asked and answers later
authenticate(m, expired) ==
    IF m.token # NullId /\ ~expired
    THEN authenticationSuccess(m, m.token)
    ELSE [m EXCEPT !.authPending = @ + 1]

\* the .then of auth(context.roomId)
authResolved(m, actor) ==
    IF m.connection.state # "authenticating" THEN m
    ELSE [authenticationSuccess(m, actor) EXCEPT !.token = actor]

\* connect that starts from any state
connectFromAnyState(m, expired) ==
    authenticate(updateConnection(m, [state |-> "authenticating"]), expired)

connect(m, expired) ==
    IF m.connection.state \notin {"closed", "unavailable"} THEN m
    ELSE authenticate(updateConnection(m, [state |-> "authenticating"]), expired)

\* onOpen that leaves numberOfRetry as it is
onOpenKeepsRetries(m) ==
    LET m0 == [m EXCEPT !.intervalHandles.heartbeat = TRUE]
        m1 == updateConnection(m0, [m0.connection EXCEPT !.state = "open"])
        m2 == tryFlushing([m1 EXCEPT !.buffer.presence =
                                         [type |-> "full", data |-> m1.me],
                                     !.presenceAliased = TRUE])
        m3 == [m2 EXCEPT !.lastConnectionId = m2.connection.id]
        m4 == IF m3.root.loaded
              THEN [m3 EXCEPT !.buffer.messages =
                                  Append(@, [type |-> "FETCH_STORAGE"])]
              ELSE m3
    IN  IF m0.connection.state = "connecting" THEN tryFlushing(m4) ELSE m0

onOpen(m) ==
    LET m0 == [m EXCEPT !.intervalHandles.heartbeat = TRUE]
        m1 == [updateConnection(m0, [m0.connection EXCEPT !.state = "open"])
                  EXCEPT !.numberOfRetry = 0]
        \* "state.lastConnectionId !== undefined" holds of null and of a number
        m2 == tryFlushing([m1 EXCEPT !.buffer.presence =
                                         [type |-> "full", data |-> m1.me],
                                     !.presenceAliased = TRUE])
        m3 == [m2 EXCEPT !.lastConnectionId = m2.connection.id]
        m4 == IF m3.root.loaded
              THEN [m3 EXCEPT !.buffer.messages =
                                  Append(@, [type |-> "FETCH_STORAGE"])]
              ELSE m3
    IN  IF m0.connection.state = "connecting" THEN tryFlushing(m4) ELSE m0

\* onClose that takes every delay from BACKOFF_RETRY_DELAYS
onCloseFastBackoff(m, event) ==
    LET code == event.code
        m0 == [m EXCEPT !.socket = "null",
                        !.timeoutHandles = [flush |-> NoTimer, reconnect |-> NoTimer,
                                            pongTimeout |-> FALSE],
                        !.intervalHandles.heartbeat = FALSE,
                        !.users = EmptyData]
        m1 == notify(m0, EmptyData, FALSE, << [type |-> "reset"] >>)
    IN  IF code >= 4000 /\ code <= 4100
        THEN LET m2 == Call(updateConnection(m1, [state |-> "failed"]),
                            [listener |-> "error", code |-> code,
                             reason |-> event.reason])
                 delay == getRetryDelay(m2, FALSE)
                 m3 == updateConnection([m2 EXCEPT !.numberOfRetry = @ + 1],
                                        [state |-> "unavailable"])
             IN  scheduleReconnect(m3, delay)
        ELSE IF code = CLOSE_WITHOUT_RETRY
             THEN updateConnection(m1, [state |-> "closed"])
             ELSE LET delay == getRetryDelay(m1, FALSE)
                      m3 == updateConnection([m1 EXCEPT !.numberOfRetry = @ + 1],
                                             [state |-> "unavailable"])
                  IN  scheduleReconnect(m3, delay)

onClose(m, event) ==
    LET code == event.code
        m0 == [m EXCEPT !.socket = "null",
                        !.timeoutHandles = [flush |-> NoTimer, reconnect |-> NoTimer,
                                            pongTimeout |-> FALSE],
                        !.intervalHandles.heartbeat = FALSE,
                        !.users = EmptyData]
        m1 == notify(m0, EmptyData, FALSE, << [type |-> "reset"] >>)
    IN  IF code >= 4000 /\ code <= 4100
        THEN LET m2 == Call(updateConnection(m1, [state |-> "failed"]),
                            [listener |-> "error", code |-> code,
                             reason |-> event.reason])
                 delay == getRetryDelay(m2, TRUE)
                 m3 == updateConnection([m2 EXCEPT !.numberOfRetry = @ + 1],
                                        [state |-> "unavailable"])
             IN  scheduleReconnect(m3, delay)
        ELSE IF code = CLOSE_WITHOUT_RETRY
             THEN updateConnection(m1, [state |-> "closed"])
             ELSE LET delay == getRetryDelay(m1, FALSE)
                      m3 == updateConnection([m1 EXCEPT !.numberOfRetry = @ + 1],
                                             [state |-> "unavailable"])
                  IN  scheduleReconnect(m3, delay)

\* socket.send("ping"): the frame of a heartbeat, no JSON message
PingFrame(m) == [by |-> "heartbeat", at |-> m.now, messages |-> << [type |-> "ping"] >>]

heartbeat(m) ==
    IF m.socket = "null" THEN m
    ELSE LET m1 == [m EXCEPT !.timeoutHandles.pongTimeout = TRUE]
         IN  IF m1.socket = "OPEN"
             THEN [m1 EXCEPT !.trace.sent = Append(@, PingFrame(m1))]
             ELSE m1

\* removeEventListener for the four handlers, socket.close(), socket = null
dropSocket(m) ==
    IF m.socket # "null"
    THEN [m EXCEPT !.socket = "null", !.trace.socketClosed = TRUE]
    ELSE m

\* reconnect that leaves the socket as it is
reconnectKeepsSocket(m, expired) ==
    LET m1 == updateConnection(m, [state |-> "unavailable"])
        m2 == [m1 EXCEPT !.timeoutHandles = [flush |-> NoTimer, reconnect |-> NoTimer,
                                             pongTimeout |-> FALSE],
                         !.intervalHandles.heartbeat = FALSE]
    IN  connect(m2, expired)

reconnect(m, expired) ==
    LET m1 == updateConnection(dropSocket(m), [state |-> "unavailable"])
        m2 == [m1 EXCEPT !.timeoutHandles = [flush |-> NoTimer, reconnect |-> NoTimer,
                                             pongTimeout |-> FALSE],
                         !.intervalHandles.heartbeat = FALSE]
    IN  connect(m2, expired)

pongTimeout(m, expired) == reconnect(m, expired)

onNavigatorOnline(m, expired) ==
    IF m.connection.state = "unavailable" THEN reconnect(m, expired) ELSE m

clearListeners(m) == [m EXCEPT !.listeners = [r \in Registries |-> << >>]]

\* disconnect that keeps the listeners
disconnectKeepsListeners(m) ==
    LET m1 == updateConnection(dropSocket(m), [state |-> "closed"])
        m2 == [m1 EXCEPT !.timeoutHandles = [flush |-> NoTimer, reconnect |-> NoTimer,
                                             pongTimeout |-> FALSE],
                         !.intervalHandles.heartbeat = FALSE,
                         !.users = EmptyData]
    IN  notify(m2, EmptyData, FALSE, << [type |-> "reset"] >>)

disconnect(m) ==
    LET m1 == updateConnection(dropSocket(m), [state |-> "closed"])
        m2 == [m1 EXCEPT !.timeoutHandles = [flush |-> NoTimer, reconnect |-> NoTimer,
                                             pongTimeout |-> FALSE],
                         !.intervalHandles.heartbeat = FALSE,
                         !.users = EmptyData]
    IN  clearListeners(notify(m2, EmptyData, FALSE, << [type |-> "reset"] >>))

----------------------------------------------------------------------------
(* subscribe.  first is a callback, a live node or a string; second is      *)
(* given or undefined.                                                      *)

\* isRoomEventName: the names of the room events
RoomEventNames == {"my-presence", "others", "event", "error", "connection",
                   "history"}
isRoomEventName(name) == name \in RoomEventNames


\* utils.remove(array, item): the item leaves the array, the others keep
\* their order
remove(array, item) == SelectSeq(array, LAMBDA x : x # item)

genericSubscribe(m, callback) ==
    [m EXCEPT !.listeners["storage"] = Append(@, callback)]

\* the function that subscribeToLiveStructureDeeply and ...Shallowly make
\* around the callback: a new function at each call
NodeClosure(m, callback) ==
    LET registered == { m.listeners["storage"][i] :
                          i \in 1 .. Len(m.listeners["storage"]) }
    IN  << callback[1],
           CHOOSE n \in 1 .. Cardinality(registered) + 1 :
               /\ << callback[1], n >> \notin registered
               /\ \A k \in 1 .. n - 1 : << callback[1], k >> \in registered >>

\* subscribe that puts the new callback before the others
subscribeFirst(m, first, second) ==
    IF second = Undefined \/ first.kind = "function"
    THEN IF first.kind = "function" THEN genericSubscribe(m, first.callback)
         ELSE Throw(m, "Please specify a listener callback")
    ELSE IF first.kind = "node" THEN genericSubscribe(m, NodeClosure(m, second))
    ELSE IF ~isRoomEventName(first.name)
         THEN Throw(m, "not a valid event name")
         ELSE [m EXCEPT !.listeners[first.name] = << second >> \o @]

\* first is a function (callback), a live node, or a string (name)
subscribe(m, first, second) ==
    IF second = Undefined \/ first.kind = "function"
    THEN IF first.kind = "function" THEN genericSubscribe(m, first.callback)
         ELSE Throw(m, "Please specify a listener callback")
    ELSE IF first.kind = "node" THEN genericSubscribe(m, NodeClosure(m, second))
    ELSE IF ~isRoomEventName(first.name)
         THEN Throw(m, "not a valid event name")
         ELSE [m EXCEPT !.listeners[first.name] = Append(@, second)]

\* the handle that subscribe returned for the callback of the registry
unsubscribe(m, registry, callback) ==
    [m EXCEPT !.listeners[registry] = remove(@, callback)]

----------------------------------------------------------------------------
(* Inbound messages.                                                        *)

UserPresence(user) ==
    IF "presence" \in DOMAIN user THEN user.presence ELSE EmptyData

HasReceivedInitialPresence(user) ==
    "_hasReceivedInitialPresence" \in DOMAIN user /\ user._hasReceivedInitialPresence

\* onUpdatePresenceMessage that drops no message
onUpdatePresenceMessageUngated(m, message) ==
    LET known == message.actor \in DOMAIN m.users
        user == m.users[message.actor]
        newUser ==
            IF ~known
            THEN [connectionId |-> message.actor, presence |-> message.data,
                  info |-> "undefined", _hasReceivedInitialPresence |-> TRUE]
            ELSE [connectionId |-> message.actor,
                  presence |-> Merge(UserPresence(user), message.data),
                  info |-> user.info, _hasReceivedInitialPresence |-> TRUE]
    IN  [m |-> [m EXCEPT !.users = Merge(@, message.actor :> newUser)],
         events |-> << [type |-> "update", updates |-> message.data,
                        user |-> newUser] >>]

\* the result holds the machine and the others-events to push (none or one)
onUpdatePresenceMessage(m, message) ==
    LET known == message.actor \in DOMAIN m.users
        user == m.users[message.actor]
        newUser ==
            IF ~known
            THEN [connectionId |-> message.actor, presence |-> message.data,
                  info |-> "undefined", _hasReceivedInitialPresence |-> TRUE]
            ELSE [connectionId |-> message.actor,
                  presence |-> Merge(UserPresence(user), message.data),
                  info |-> user.info, _hasReceivedInitialPresence |-> TRUE]
    IN  IF "targetActor" \notin DOMAIN message /\ known
           /\ ~HasReceivedInitialPresence(user)
        THEN [m |-> m, events |-> << >>]
        ELSE [m |-> [m EXCEPT !.users = Merge(@, message.actor :> newUser)],
              events |-> << [type |-> "update", updates |-> message.data,
                             user |-> newUser] >>]

onUserLeftMessage(m, message) ==
    IF message.actor \in DOMAIN m.users
    THEN [m |-> [m EXCEPT !.users =
                     [a \in (DOMAIN m.users) \ {message.actor} |-> m.users[a]]],
          events |-> << [type |-> "leave", user |-> m.users[message.actor]] >>]
    ELSE [m |-> m, events |-> << >>]

onRoomStateMessage(m, message) ==
    [m |-> [m EXCEPT !.users =
               [a \in message.users |-> [connectionId |-> a, info |-> "info"]]],
     events |-> << [type |-> "reset"] >>]

\* onUserJoinedMessage that leaves _hasReceivedInitialPresence out
onUserJoinedMessageUnflagged(m, message) ==
    LET user == [connectionId |-> message.actor, info |-> "info"]
        m1 == [m EXCEPT !.users = Merge(@, message.actor :> user)]
        m2 == tryFlushing([m1 EXCEPT !.buffer.messages =
                  Append(@, [type |-> "UPDATE_PRESENCE", data |-> m1.me,
                             targetActor |-> message.actor])])
    IN  [m |-> m2, events |-> << [type |-> "enter", user |-> user] >>]

onUserJoinedMessage(m, message) ==
    LET user == [connectionId |-> message.actor, info |-> "info",
                 _hasReceivedInitialPresence |-> TRUE]
        m1 == [m EXCEPT !.users = Merge(@, message.actor :> user)]
        m2 == tryFlushing([m1 EXCEPT !.buffer.messages =
                  Append(@, [type |-> "UPDATE_PRESENCE", data |-> m1.me,
                             targetActor |-> message.actor])])
    IN  [m |-> m2, events |-> << [type |-> "enter", user |-> user] >>]

onEvent(m, message) ==
    Call(m, [listener |-> "event", connectionId |-> message.actor])

\* utils.getTreesDiffOperations on a tree that is one root object: an
\* UPDATE_OBJECT (with no opId) of the keys whose values differ
getTreesDiffOperations(current, incoming) ==
    LET changed == { k \in DOMAIN incoming :
                        k \notin DOMAIN current \/ current[k] # incoming[k] }
    IN  IF changed = {} THEN << >>
        ELSE << [type |-> "UPDATE_OBJECT", id |-> RootId,
                 data |-> [k \in changed |-> incoming[k]]] >>

updateRoot(m, items) ==
    LET result == apply(m, getTreesDiffOperations(m.root.data, items), FALSE)
    IN  notify(result.m, result.storageUpdates, result.presence, << >>)

\* state.defaultStorageRoot is undefined: no key is added to the root
createOrUpdateRootFromMessage(m, message) ==
    IF m.root.loaded
    THEN updateRoot(m, message.items)
    ELSE [m EXCEPT !.root = [loaded |-> TRUE, data |-> message.items,
                             nodes |-> EmptyData]]

\* applyAndSendOfflineOps that sends one UPDATE_STORAGE message for each op
applyAndSendOfflineOpsOneByOne(m, offlineOps) ==
    IF Len(offlineOps) = 0 THEN m
    ELSE LET result == apply(m, offlineOps, TRUE)
             m1 == notify(result.m, result.storageUpdates, result.presence, << >>)
         IN  Send(m1, [by |-> "applyAndSendOfflineOps", at |-> m1.now,
                       messages |-> [i \in 1 .. Len(offlineOps) |->
                                        [type |-> "UPDATE_STORAGE",
                                         ops |-> << offlineOps[i] >>]]])

applyAndSendOfflineOps(m, offlineOps) ==
    IF Len(offlineOps) = 0 THEN m
    ELSE LET result == apply(m, offlineOps, TRUE)
             m1 == notify(result.m, result.storageUpdates, result.presence, << >>)
         IN  Send(m1, [by |-> "applyAndSendOfflineOps", at |-> m1.now,
                       messages |-> << [type |-> "UPDATE_STORAGE",
                                        ops |-> offlineOps] >>])

\* the body of the loop of onMessage; acc holds the machine and updates
onServerMessage(acc, message) ==
    CASE message.type = "USER_JOINED" ->
            LET r == onUserJoinedMessage(acc.m, message)
            IN  [acc EXCEPT !.m = r.m, !.others = @ \o r.events]
      [] message.type = "UPDATE_PRESENCE" ->
            LET r == onUpdatePresenceMessage(acc.m, message)
            IN  [acc EXCEPT !.m = r.m, !.others = @ \o r.events]
      [] message.type = "BROADCASTED_EVENT" ->
            [acc EXCEPT !.m = onEvent(acc.m, message)]
      [] message.type = "USER_LEFT" ->
            LET r == onUserLeftMessage(acc.m, message)
            IN  [acc EXCEPT !.m = r.m, !.others = @ \o r.events]
      [] message.type = "ROOM_STATE" ->
            LET r == onRoomStateMessage(acc.m, message)
            IN  [acc EXCEPT !.m = r.m, !.others = @ \o r.events]
      [] message.type = "INITIAL_STORAGE_STATE" ->
            LET offlineOps == acc.m.offlineOperations
                m1 == createOrUpdateRootFromMessage(acc.m, message)
                m2 == applyAndSendOfflineOps(m1, offlineOps)
                \* _getInitialStateResolver?.()
                m3 == [m2 EXCEPT !.getInitialStatePromise =
                                     IF @ = "pending" THEN "resolved" ELSE @]
            IN  [acc EXCEPT !.m = Call(m3, [listener |-> "storageHasLoaded"])]
      [] message.type = "UPDATE_STORAGE" ->
            CHOOSE next \in
                { [acc EXCEPT !.m = result.m,
                              !.storageUpdates =
                                  mergeAllStorageUpdates(@, result.storageUpdates)] :
                      result \in { apply(acc.m, message.ops, FALSE) } } : TRUE
      [] OTHER -> acc

\* the loop of onMessage over the messages of the frame
RECURSIVE onMessageLoop(_, _, _)
onMessageLoop(acc, messages, i) ==
    IF i > Len(messages) THEN acc
    ELSE CHOOSE result \in { onMessageLoop(next, messages, i + 1) :
                                next \in { onServerMessage(acc, messages[i]) } } : TRUE

\* onMessage that notifies after each message of the frame
RECURSIVE onMessageLoopNotifying(_, _, _)
onMessageLoopNotifying(m, messages, i) ==
    IF i > Len(messages) THEN m
    ELSE CHOOSE result \in
             { onMessageLoopNotifying(
                   notify(acc.m, acc.storageUpdates, FALSE, acc.others),
                   messages, i + 1) :
                 acc \in { onServerMessage([m |-> m, storageUpdates |-> EmptyData,
                                            others |-> << >>], messages[i]) } } : TRUE

onServerMessagesNotifyEach(m, messages) == onMessageLoopNotifying(m, messages, 1)

\* onMessage from the loop over the parsed messages on
onServerMessages(m, messages) ==
    IF Len(messages) = 0 THEN m
    ELSE CHOOSE result \in
             { notify(acc.m, acc.storageUpdates, FALSE, acc.others) :
                   acc \in { onMessageLoop([m |-> m, storageUpdates |-> EmptyData,
                                            others |-> << >>], messages, 1) } } : TRUE

\* The data of a MessageEvent: text is "pong", "invalid" (no JSON text) or
\* "json", and then value is what JSON.parse gives: an object (a message), an
\* array of values, or a value that is neither (a number, a string, null).
parseServerMessage(data) ==
    IF data.json # "object" THEN [isNull |-> TRUE]
    ELSE [isNull |-> FALSE, msg |-> data.msg]

\* compact(...) drops the nulls
parseServerMessages(data) ==
    IF data.text # "json" THEN [isNull |-> TRUE, messages |-> << >>]
    ELSE LET items == IF data.value.json = "array" THEN data.value.items
                      ELSE << data.value >>
             parsed == [i \in 1 .. Len(items) |-> parseServerMessage(items[i])]
             kept == SelectSeq(parsed, LAMBDA r : ~r.isNull)
         IN  [isNull |-> FALSE, messages |-> [i \in 1 .. Len(kept) |-> kept[i].msg]]

\* onMessage that takes any frame for the answer to the ping
onMessageAnyFrameIsPong(m, data) ==
    LET m1 == [m EXCEPT !.timeoutHandles.pongTimeout = FALSE]
    IN  IF data.text = "pong" THEN m1
        ELSE LET messages == parseServerMessages(data)
             IN  IF messages.isNull \/ Len(messages.messages) = 0 THEN m1
                 ELSE onServerMessages(m1, messages.messages)

onMessage(m, data) ==
    IF data.text = "pong" THEN [m EXCEPT !.timeoutHandles.pongTimeout = FALSE]
    ELSE LET messages == parseServerMessages(data)
         IN  IF messages.isNull \/ Len(messages.messages) = 0 THEN m
             ELSE onServerMessages(m, messages.messages)

\* the text of a frame that holds the messages
JsonFrame(messages) ==
    [text |-> "json",
     value |-> [json |-> "array",
                items |-> [i \in 1 .. Len(messages) |->
                              [json |-> "object", msg |-> messages[i]]]]]

----------------------------------------------------------------------------
(* Actions: the calls of the room's user.                                   *)

UpdatePresence(overrides, addToHistory) ==
    /\ isBatching => trace.mutations < MaxBatch
    /\ Becomes(updatePresence(
           IF isBatching THEN InBatch(addToHistory, {})
           ELSE [Begin("updatePresence") EXCEPT !.trace.input = << overrides >>],
           overrides, addToHistory))

\* a call made by the callback of a running batch belongs to the batch
Undo ==
    Becomes(undo(IF isBatching THEN Cur
                 ELSE [Begin("undo") EXCEPT !.trace.restores =
                          IF trace.op \in {"updatePresence", "storage", "batch"}
                             /\ trace.pushes = 1
                             /\ trace.historied = trace.mutations
                          THEN trace.before ELSE NoSnapshot]))

Redo ==
    Becomes(redo(IF isBatching THEN Cur ELSE Begin("redo")))

BatchEnter ==
    Becomes(batchEnter(IF isBatching THEN Cur ELSE Begin("batch")))

BatchFinally ==
    /\ isBatching
    /\ Becomes(batchFinally(Cur))

PauseHistory ==
    /\ ~isBatching
    /\ Becomes(pauseHistory(Begin("pauseHistory")))

ResumeHistory ==
    /\ ~isBatching
    /\ Becomes(resumeHistory(Begin("resumeHistory")))

StorageSet(key, value) ==
    /\ root.loaded
    /\ opClock < MaxOps
    /\ isBatching => trace.mutations < MaxBatch
    /\ Becomes(LiveObjectSet(
           IF isBatching THEN InBatch(TRUE, {key}) ELSE Begin("storage"),
           key, value))

Connect(expired) ==
    /\ ~isBatching
    /\ Becomes(connect([Begin("connect") EXCEPT
                            !.connLog = << connection.state, "connect()" >>],
                        expired))

Disconnect ==
    /\ ~isBatching
    /\ Becomes(disconnect([Begin("disconnect") EXCEPT
                               !.connLog = << connection.state, "disconnect()" >>]))

Subscribe(first, second) ==
    /\ ~isBatching
    /\ Becomes(subscribe([Begin("subscribe") EXCEPT !.trace.input = << first >>],
                          first, second))

\* the application calls the handle of a callback that is registered
Unsubscribe(registry, callback) ==
    /\ ~isBatching
    /\ \E i \in 1 .. Len(listeners[registry]) : listeners[registry][i] = callback
    /\ Becomes(unsubscribe([Begin("unsubscribe") EXCEPT
                                !.trace.input = << registry, callback >>],
                            registry, callback))

----------------------------------------------------------------------------
(* Actions: the auth endpoint, the socket, the server and the clock.        *)

AuthResolved(actor) ==
    /\ ~isBatching
    /\ authPending > 0
    /\ Becomes(authResolved([Begin("authResolved") EXCEPT !.authPending = @ - 1],
                            actor))

AuthRejected ==
    /\ ~isBatching
    /\ authPending > 0
    /\ Becomes(authenticationFailure(
           [Begin("authRejected") EXCEPT !.authPending = @ - 1]))

\* the socket opens: readyState becomes OPEN and "open" is dispatched
OnOpen ==
    /\ ~isBatching
    /\ socket = "CONNECTING"
    /\ opens < MaxOpens
    /\ Becomes(onOpen([Begin("onOpen") EXCEPT !.socket = "OPEN", !.opens = @ + 1]))

OnClose(code) ==
    /\ ~isBatching
    /\ socket # "null"
    /\ Becomes(onClose([Begin("onClose") EXCEPT
                            !.trace.input = << code >>,
                            !.connLog = Append(@, IF code = CLOSE_WITHOUT_RETRY
                                                  THEN "close without retry"
                                                  ELSE "close")],
                        [code |-> code, reason |-> "closed by the server"]))

OnMessage(messages) ==
    /\ ~isBatching
    /\ socket = "OPEN"
    /\ Becomes(onMessage([Begin("onMessage") EXCEPT !.trace.input = messages],
                          JsonFrame(messages)))

\* a frame that is not the JSON text of messages
OnFrame(data) ==
    /\ ~isBatching
    /\ socket = "OPEN"
    /\ Becomes(onMessage([Begin("onFrame") EXCEPT !.trace.input = << data >>], data))

\* the interval of effects.startHeartbeatInterval fires
Heartbeat ==
    /\ ~isBatching
    /\ intervalHandles.heartbeat
    /\ Becomes(heartbeat(Begin("heartbeat")))

\* the timer of effects.schedulePongTimeout fires
PongTimeout(expired) ==
    /\ ~isBatching
    /\ timeoutHandles.pongTimeout
    /\ Becomes(pongTimeout([Begin("pongTimeout") EXCEPT
                                !.timeoutHandles.pongTimeout = FALSE], expired))

\* the timer of effects.scheduleReconnect fires
ReconnectTimer(expired) ==
    /\ ~isBatching
    /\ timeoutHandles.reconnect # NoTimer
    /\ Becomes(connect([Begin("reconnectTimer") EXCEPT
                            !.timeoutHandles.reconnect = NoTimer], expired))

GetStorage ==
    /\ ~isBatching
    /\ Becomes(getStorage(Begin("getStorage")))

GetStorageSnapshot ==
    /\ ~isBatching
    /\ Becomes(getStorageSnapshot(Begin("getStorageSnapshot")))

\* the server answers the FETCH_STORAGE it got on the socket that is open
ServerAnswers(items) ==
    /\ ~isBatching
    /\ socket = "OPEN"
    /\ fetchedOn = opens
    /\ Becomes([onMessage([Begin("onMessage") EXCEPT
                               !.trace.input = << [type |-> "INITIAL_STORAGE_STATE",
                                                   items |-> items] >>],
                          JsonFrame(<< [type |-> "INITIAL_STORAGE_STATE",
                                        items |-> items] >>))
                   EXCEPT !.fetchedOn = 0])

\* time passes and the flush timer fires late, a tick after it was due (a
\* timer that fires on time is armed again and comes to this in the end)
FlushTimerFires ==
    /\ ~isBatching
    /\ timeoutHandles.flush # NoTimer
    /\ Becomes(tryFlushing([Begin("flushTimer") EXCEPT
                                !.now = IF @ <= timeoutHandles.flush
                                        THEN timeoutHandles.flush + 1 ELSE @,
                                !.timeoutHandles.flush = NoTimer]))

\* the readyState of the socket leaves OPEN; its close event is yet to come
SocketClosing ==
    /\ ~isBatching
    /\ socket = "OPEN"
    /\ Becomes([Begin("socketClosing") EXCEPT !.socket = "CLOSING"])

\* a live node that is attached to the storage asks the pool for its id
GenerateId ==
    /\ ~isBatching
    /\ root.loaded
    /\ clock < MaxOps
    /\ Becomes(generateId(Begin("generateId")).m)

\* the timer of effects.delayFlush fires
FlushTimer ==
    /\ ~isBatching
    /\ timeoutHandles.flush # NoTimer
    /\ now >= timeoutHandles.flush
    /\ Becomes(tryFlushing([Begin("flushTimer") EXCEPT
                                !.timeoutHandles.flush = NoTimer]))

Tick ==
    /\ ~isBatching
    /\ now < ThrottleDelay + 1 + MaxTime
    /\ now' = now + 1
    /\ UNCHANGED << connection, token, lastConnectionId, socket, lastFlushTime,
                    buffer, timeoutHandles, intervalHandles, me, others, users,
                    numberOfRetry, clock, opClock, root, undoStack, redoStack,
                    isHistoryPaused, pausedHistory, isBatching, batch,
                    offlineOperations, presenceAliased, authPending, trace,
                    opIdLog, opens, getInitialStatePromise, fetchedOn,
                    listeners, connLog >>

----------------------------------------------------------------------------
(* The history bound: presence updates of one key, undo and redo, with the  *)
(* redo stack kept to MaxRedo entries.                                      *)

NextBound ==
    \/ \E h \in BOOLEAN : UpdatePresence([x |-> 1], h)
    \/ (Len(redoStack) < MaxRedo /\ Undo)
    \/ Redo

SpecBound == Init /\ [][NextBound]_vars

\* C1: the undo stack never holds more than 50 entries
C1_HistoryBound == Len(undoStack) <= UndoStackCap

----------------------------------------------------------------------------
(* History, batch, pause and resume, on presence and on a loaded storage,   *)
(* with at most MaxHistory entries on the two stacks.                       *)

HistoryRoom == Len(undoStack) + Len(redoStack) < MaxHistory
PausedRoom == Len(pausedHistory) < MaxPaused

HistOverrides == { [x |-> 1] }
StorageItems == { [k \in StorageKeys |-> 0] }
OpsRoom == opClock < MaxOps

NextHistory ==
    \/ (connection.state = "closed" /\ Connect(FALSE))
    \/ AuthResolved(1)
    \/ OnOpen
    \/ \E items \in StorageItems :
          (~root.loaded /\ OnMessage(<< [type |-> "INITIAL_STORAGE_STATE",
                                        items |-> items] >>))
    \/ \E o \in HistOverrides, h \in BOOLEAN :
          (HistoryRoom /\ PausedRoom /\ UpdatePresence(o, h))
    \/ \E k \in StorageKeys, v \in Vals :
          (HistoryRoom /\ PausedRoom /\ StorageSet(k, v))
    \/ (~isBatching /\ OpsRoom /\ Undo)
    \/ (~isBatching /\ OpsRoom /\ Redo)
    \/ (~isBatching /\ HistoryRoom /\ PausedRoom /\ BatchEnter)
    \/ BatchFinally
    \/ PauseHistory
    \/ ResumeHistory

SpecHistory == Init /\ [][NextHistory]_vars

CallsTo(listener) ==
    SelectSeq(trace.calls, LAMBDA c : c.listener = listener)

BatchDone == trace.op = "batch" /\ ~isBatching

C3_RoundTrip ==
    (trace.op = "undo" /\ trace.restores.valid)
        => (me = trace.restores.me /\ root.data = trace.restores.root)

----------------------------------------------------------------------------
(* Storage ops on a connection that closes and opens again; the server      *)
(* echoes ops it was sent and broadcasts the op of another client.          *)

\* the ids of the ops the server can broadcast: the ones a frame has carried
\* to it, and one of another client
ServerOpIds ==
    { opIdLog[i].opId : i \in { n \in 1 .. Len(opIdLog) : opIdLog[n].sent } }
        \cup { << 7, 0 >> }

ServerOps ==
    { [type |-> "UPDATE_OBJECT", id |-> RootId, data |-> [k \in StorageKeys |-> 1],
       opId |-> i] : i \in ServerOpIds }

\* the ops of one UPDATE_STORAGE message: an op, once or up to MaxMsgOps times
ServerOpSeqs ==
    UNION { [1 .. n -> {op}] : n \in 1 .. MaxMsgOps, op \in ServerOps }

NextStorage ==
    \/ \E expired \in BOOLEAN :
          (connection.state \in {"closed", "unavailable"} /\ Connect(expired))
    \/ \E actor \in SelfActors : AuthResolved(actor)
    \/ OnOpen
    \/ (numberOfRetry < MaxRetry /\ OnClose(1006))
    \/ \E items \in StorageItems :
          (((root.loaded /\ root.data # items) => opClock <= MaxOps)
              /\ OnMessage(<< [type |-> "INITIAL_STORAGE_STATE", items |-> items] >>))
    \/ \E ops \in ServerOpSeqs :
          OnMessage(<< [type |-> "UPDATE_STORAGE", ops |-> ops] >>)
    \/ \E k \in StorageKeys : StorageSet(k, 1)
    \/ (OpsRoom /\ Undo)
    \/ Tick
    \/ FlushTimer

SpecStorage == Init /\ [][NextStorage]_vars

\* the handler was the one of an INITIAL_STORAGE_STATE message
StorageLoaded ==
    \E i \in 1 .. Len(trace.calls) : trace.calls[i].listener = "storageHasLoaded"

\* the ids generated while the socket was not OPEN
DownIds ==
    { opIdLog[i].opId : i \in { n \in 1 .. Len(opIdLog) : ~opIdLog[n].open } }

\* the ids the handler generated
NewIds == { opIdLog[i].opId : i \in (trace.before.ids + 1) .. Len(opIdLog) }

\* the ids of the ops the handler applied with source ACK
AckedIds ==
    { trace.applied[i].opId :
        i \in { n \in 1 .. Len(trace.applied) : trace.applied[n].source = "ACK" } }

\* the ids of the ops of the UPDATE_STORAGE messages the handler was given
InputOpIds ==
    IF trace.op = "onMessage" THEN FrameOpIds([messages |-> trace.input]) ELSE {}

\* the step dispatched ops: a storage mutation, the end of a batch, an undo or
\* a redo that had an entry to pop
Dispatched ==
    /\ ~isBatching
    /\ \/ trace.op \in {"storage", "batch"}
       \/ (trace.op = "undo" /\ trace.before.undo > 0)
       \/ (trace.op = "redo" /\ trace.before.redo > 0)

\* C5: an op dispatched while the socket is not OPEN is recorded in
\* offlineOperations and goes out in no frame of tryFlushing; closing,
\* connecting and opening remove nothing from offlineOperations; the handler of
\* INITIAL_STORAGE_STATE sends the ops of offlineOperations, all of them, in
\* one frame that is one UPDATE_STORAGE message, and sends nothing else; an id
\* leaves offlineOperations only in a handler that applied it as ACK, and
\* that is an id of an op of the server's UPDATE_STORAGE
C5_ReconnectReplay ==
    /\ Dispatched => NewIds \subseteq OfflineIds(offlineOperations)
    /\ (Dispatched /\ socket # "OPEN") =>
          (trace.sent = << >> /\ buffer.storageOperations = << >>)
    /\ \A i \in 1 .. Len(trace.sent) :
          trace.sent[i].by = "tryFlushing" =>
              FrameOpIds(trace.sent[i]) \cap DownIds = {}
    /\ trace.op \in {"onClose", "connect", "authResolved", "onOpen"} =>
          trace.before.offline \subseteq OfflineIds(offlineOperations)
    /\ (trace.op = "onMessage" /\ StorageLoaded) =>
          IF trace.before.offline = {} THEN trace.sent = << >>
          ELSE /\ Len(trace.sent) = 1
               /\ trace.sent[1].by = "applyAndSendOfflineOps"
               /\ Len(trace.sent[1].messages) = 1
               /\ trace.sent[1].messages[1].type = "UPDATE_STORAGE"
               /\ Len(trace.sent[1].messages[1].ops) = Cardinality(trace.before.offline)
               /\ FrameOpIds(trace.sent[1]) = trace.before.offline
    /\ trace.before.valid =>
          trace.before.offline \ OfflineIds(offlineOperations) \subseteq AckedIds
    /\ AckedIds \subseteq InputOpIds

\* an op set while the socket was down, kept over a close and a second
\* opening, goes out after INITIAL_STORAGE_STATE
C5_Witness ==
    /\ trace.op = "onMessage"
    /\ StorageLoaded
    /\ opens = 2
    /\ trace.before.offline \cap DownIds # {}
    /\ Len(trace.sent) = 1
    /\ FrameOpIds(trace.sent[1]) = trace.before.offline

\* the ids a handler has removed from offlineOperations before it applies
\* the i-th op
AckedBefore(i) ==
    { trace.applied[j].opId :
        j \in { n \in 1 .. (i - 1) : trace.applied[n].source = "ACK" } }

\* C6: the ops of an UPDATE_STORAGE message are applied in order, each as ACK
\* when its opId is in offlineOperations at that moment and as REMOTE when it
\* is not; the ACK removes the id, so a second op with the same opId is
\* REMOTE, and nothing else is removed; undo, redo and the replay of the
\* offline ops apply as UNDOREDO_RECONNECT and remove no id
C6_IdempotentAck ==
    /\ (trace.op = "onMessage" /\ ~StorageLoaded) =>
          /\ Len(trace.applied) = Len(trace.input[1].ops)
          /\ \A i \in 1 .. Len(trace.applied) :
                /\ trace.applied[i].opId = trace.input[1].ops[i].opId
                /\ trace.applied[i].source =
                      (IF trace.applied[i].opId \in trace.before.offline \ AckedBefore(i)
                       THEN "ACK" ELSE "REMOTE")
          /\ OfflineIds(offlineOperations) = trace.before.offline \ InputOpIds
    /\ trace.op \in {"undo", "redo"} =>
          /\ \A i \in 1 .. Len(trace.applied) :
                trace.applied[i].source = "UNDOREDO_RECONNECT"
          /\ trace.before.offline \subseteq OfflineIds(offlineOperations)
    /\ (trace.op = "onMessage" /\ StorageLoaded) =>
          /\ \A i \in 1 .. Len(trace.applied) :
                trace.applied[i].opId \in trace.before.offline =>
                    trace.applied[i].source = "UNDOREDO_RECONNECT"
          /\ trace.before.offline \subseteq OfflineIds(offlineOperations)

\* the server's message holds the same op twice: ACK, then REMOTE
C6_Witness ==
    /\ trace.op = "onMessage"
    /\ Len(trace.applied) = 2
    /\ trace.applied[1].opId = trace.applied[2].opId
    /\ trace.applied[1].source = "ACK"
    /\ trace.applied[2].source = "REMOTE"
    /\ trace.applied[1].opId \notin OfflineIds(offlineOperations)

\* C10: the opIds generateOpId has returned are pairwise distinct
C10_OpIdUniqueness ==
    \A i, j \in 1 .. Len(opIdLog) :
        i # j => opIdLog[i].opId # opIdLog[j].opId

\* two ids of the same actor id, generated before and after the socket
\* opened again
C10_Witness ==
    \E i, j \in 1 .. Len(opIdLog) :
        /\ opIdLog[i].opens < opIdLog[j].opens
        /\ opIdLog[i].opId[1] = opIdLog[j].opId[1]

----------------------------------------------------------------------------
(* Presence updates on an open socket, with the clock and the flush timer.  *)

\* updatePresence is given one key at a time
ThrottleOverrides == { k :> v : k \in PresenceKeys, v \in Vals }

NextThrottle ==
    \/ (connection.state = "closed" /\ Connect(FALSE))
    \/ AuthResolved(1)
    \/ OnOpen
    \/ \E o \in ThrottleOverrides : UpdatePresence(o, FALSE)
    \/ Tick
    \/ FlushTimer

SpecThrottle == Init /\ [][NextThrottle]_vars

\* the frames the handler sent from tryFlushing
FlushFrames == SelectSeq(trace.sent, LAMBDA f : f.by = "tryFlushing")

PresenceMessages(frame) ==
    SelectSeq(frame.messages, LAMBDA msg : msg.type = "UPDATE_PRESENCE")

\* the handler was an updatePresence on an open socket, throttleDelay or less
\* after the last flush
InWindow ==
    /\ trace.op = "updatePresence"
    /\ trace.before.socket = "OPEN"
    /\ now - trace.before.lastFlushTime <= ThrottleDelay

\* C7: an updatePresence made throttleDelay or less after the last flush
\* sends no frame: its values go to the buffer, with the keys buffered before,
\* and the flush timer is set to the end of the delay; a handler sends at most
\* one frame from tryFlushing, more than throttleDelay after the last one
\* (whose time is lastFlushTime), and the presence of the frame holds, for
\* each of its keys, the value of the last call (the value of state.me)
C7_Throttle ==
    /\ InWindow =>
          /\ trace.sent = << >>
          /\ buffer.presence.type # "null"
          /\ \A k \in DOMAIN trace.input[1] :
                k \in DOMAIN buffer.presence.data
                    /\ buffer.presence.data[k] = trace.input[1][k]
          /\ DOMAIN trace.before.presence.data \subseteq DOMAIN buffer.presence.data
          /\ timeoutHandles.flush = trace.before.lastFlushTime + ThrottleDelay
    /\ buffer.presence.type # "null" =>
          \A k \in DOMAIN buffer.presence.data : buffer.presence.data[k] = me[k]
    /\ Len(FlushFrames) <= 1
    /\ FlushFrames = << >> => lastFlushTime = trace.before.lastFlushTime
    /\ \A i \in 1 .. Len(FlushFrames) :
          /\ FlushFrames[i].at - trace.before.lastFlushTime > ThrottleDelay
          /\ lastFlushTime = FlushFrames[i].at
          /\ Len(PresenceMessages(FlushFrames[i])) <= 1
          /\ \A j \in 1 .. Len(PresenceMessages(FlushFrames[i])) :
                LET data == PresenceMessages(FlushFrames[i])[j].data
                IN  /\ \A k \in DOMAIN data : data[k] = me[k]
                    /\ trace.op = "flushTimer" => data = trace.before.presence.data

\* the timer sends the one frame of two calls made within the delay: a
\* partial presence of two keys
C7_Witness ==
    /\ trace.op = "flushTimer"
    /\ Len(FlushFrames) = 1
    /\ Len(PresenceMessages(FlushFrames[1])) = 1
    /\ "targetActor" \notin DOMAIN PresenceMessages(FlushFrames[1])[1]
    /\ PresenceMessages(FlushFrames[1])[1].data = [k \in PresenceKeys |-> 1]

----------------------------------------------------------------------------
(* The others: frames of ROOM_STATE, USER_JOINED, UPDATE_PRESENCE and       *)
(* USER_LEFT messages on an open socket.                                    *)

OthersData == { k :> 1 : k \in PresenceKeys }

RoomState(actors) == [type |-> "ROOM_STATE", users |-> actors]
UserJoined(actor) == [type |-> "USER_JOINED", actor |-> actor]
UserLeft(actor) == [type |-> "USER_LEFT", actor |-> actor]
\* an UPDATE_PRESENCE with no targetActor
Broadcast(actor, data) == [type |-> "UPDATE_PRESENCE", actor |-> actor, data |-> data]
\* an UPDATE_PRESENCE whose targetActor is this client
Targeted(actor, data) ==
    [type |-> "UPDATE_PRESENCE", actor |-> actor, data |-> data,
     targetActor |-> connection.id]

\* the frames of the server: one message, or a ROOM_STATE or a USER_JOINED
\* with the presence updates that follow it
OthersFrames ==
    { << RoomState(actors) >> : actors \in SUBSET OtherActors }
        \cup { << UserJoined(a) >> : a \in OtherActors }
        \cup { << UserLeft(a) >> : a \in OtherActors }
        \cup { << Broadcast(a, d) >> : a \in OtherActors, d \in OthersData }
        \cup { << Targeted(a, d) >> : a \in OtherActors, d \in OthersData }
        \cup { << RoomState(actors), Broadcast(a, d) >> :
                  actors \in SUBSET OtherActors, a \in OtherActors, d \in OthersData }
        \cup { << UserJoined(a), Broadcast(a, d) >> :
                  a \in OtherActors, d \in OthersData }
        \cup { << UserJoined(a), Broadcast(a, d), Targeted(a, e) >> :
                  a \in OtherActors, d \in OthersData, e \in OthersData }

NextOthers ==
    \/ (connection.state = "closed" /\ Connect(FALSE))
    \/ AuthResolved(1)
    \/ OnOpen
    \/ (socket = "OPEN" /\ \E frame \in OthersFrames :
          ((frame[1].type = "USER_JOINED" => Len(buffer.messages) < MaxQueued)
              /\ OnMessage(frame)))

SpecOthers == Init /\ [][NextOthers]_vars

\* the types of the events the others listeners were called with
OthersEvents ==
    [i \in 1 .. Len(CallsTo("others")) |-> CallsTo("others")[i].event.type]

UpdateEvents ==
    SelectSeq(CallsTo("others"), LAMBDA c : c.event.type = "update")

HasPresence(userMap, actor) ==
    actor \in DOMAIN userMap /\ "presence" \in DOMAIN userMap[actor]

\* the frame ended with an UPDATE_PRESENCE that has no targetActor, for an
\* actor no presence had been received for
UngatedCase ==
    /\ trace.op = "onMessage"
    /\ Len(trace.input) <= 2
    /\ Last(trace.input).type = "UPDATE_PRESENCE"
    /\ "targetActor" \notin DOMAIN Last(trace.input)
    /\ Len(trace.input) = 1 => ~HasPresence(trace.before.users, Last(trace.input).actor)

\* the actor of that message was listed by ROOM_STATE and nothing else was
\* received for it
Listed ==
    LET actor == Last(trace.input).actor
    IN  IF Len(trace.input) = 2
        THEN trace.input[1].type = "ROOM_STATE" /\ actor \in trace.input[1].users
        ELSE actor \in DOMAIN trace.before.users
                /\ ~HasReceivedInitialPresence(trace.before.users[actor])

JoinedCase ==
    /\ trace.op = "onMessage"
    /\ Len(trace.input) >= 2
    /\ trace.input[1] = UserJoined(7)
    /\ "targetActor" \notin DOMAIN trace.input[2]

----------------------------------------------------------------------------
(* The connection: the user connects and disconnects, the auth endpoint     *)
(* answers or fails, the socket opens and closes, the heartbeat and the     *)
(* timers fire.                                                             *)

\* entries of connLog after which no more step is taken
MaxLog == 6

\* failed connection attempts in a row in the connection specification
MaxConnRetry == 2

\* auth promises pending at a time
MaxPending == 2

CloseCodes == {1006, 4001, CLOSE_WITHOUT_RETRY}

PongData == [text |-> "pong"]

LogRoom == Len(connLog) < MaxLog
PendingRoom == authPending < MaxPending
RetryRoom == numberOfRetry < MaxConnRetry

ConnectionListeners == {"connection", "error", "others"}

NextConnection ==
    \/ \E expired \in BOOLEAN : (LogRoom /\ PendingRoom /\ Connect(expired))
    \/ (LogRoom /\ Disconnect)
    \/ \E n \in ConnectionListeners :
          (listeners[n] = << >> /\ Subscribe([kind |-> "name", name |-> n], App))
    \/ (LogRoom /\ AuthResolved(1))
    \/ (LogRoom /\ RetryRoom /\ AuthRejected)
    \/ (LogRoom /\ OnOpen)
    \/ \E code \in CloseCodes : (LogRoom /\ RetryRoom /\ OnClose(code))
    \/ (users = EmptyData /\ OnMessage(<< RoomState({7}) >>))
    \/ Heartbeat
    \/ \E expired \in BOOLEAN : (LogRoom /\ PendingRoom /\ PongTimeout(expired))
    \/ \E expired \in BOOLEAN : (LogRoom /\ PendingRoom /\ ReconnectTimer(expired))
    \/ OnFrame(PongData)

SpecConnection == Init /\ [][NextConnection]_vars

\* the user has called disconnect() and has not called connect() since
Disconnected == connLog[2] = "disconnect()"

\* the states set since the call of the user
StatesSince == SubSeq(connLog, 3, Len(connLog))

\* C11: once disconnect() has returned, and until the user calls connect(),
\* the state is closed and was set to nothing else, there is no socket, and
\* no reconnect timer, pong timer or heartbeat is pending
C11_DisconnectTerminal ==
    (Len(connLog) >= 2 /\ Disconnected) =>
        /\ connection.state = "closed"
        /\ \A i \in 1 .. Len(StatesSince) : StatesSince[i] = "closed"
        /\ socket = "null"
        /\ timeoutHandles.reconnect = NoTimer
        /\ ~timeoutHandles.pongTimeout
        /\ ~intervalHandles.heartbeat

\* the entries the running handler has added to connLog
NewStates ==
    IF trace.op \in {"connect", "disconnect"} THEN StatesSince
    ELSE SubSeq(connLog, trace.before.log + 1, Len(connLog))

\* the calls of the connection listeners, as the states they were given
ConnectionCalls ==
    [i \in 1 .. Len(CallsTo("connection")) |-> CallsTo("connection")[i].state]

\* the listener calls a handler makes for the calls expected of it, when a
\* registry holds the callbacks it held as the handler began
Heard(expected) ==
    SelectSeq(expected, LAMBDA c : trace.before.listeners[c.listener] # << >>)

\* the socket has opened after a connect() made in state closed, with no
\* failure, close or other call in between
ColdConnect ==
    /\ trace.op = "onOpen"
    /\ Len(connLog) >= 2
    /\ connLog[1] = "closed"
    /\ connLog[2] = "connect()"
    /\ \A i \in 1 .. Len(StatesSince) :
          StatesSince[i] \in {"authenticating", "connecting", "open"}

\* every state set by connect, by the answer of the auth endpoint and by the
\* handler of open was given to the connection listeners the handler began with
StatesReported ==
    trace.op \in {"connect", "authResolved", "onOpen"} =>
        ConnectionCalls =
            SelectSeq(NewStates, LAMBDA st : trace.before.listeners["connection"] # << >>)

\* C12: after connect() in state closed, authentication success and the
\* opening of the socket, the states set were authenticating, connecting and
\* open, in that order, each given to the connection listeners,
\* numberOfRetry is 0, and the handler of open sent one frame, whose first
\* message is the full presence (targetActor -1) with the data of state.me,
\* the initial presence
C12_ColdConnect ==
    /\ StatesReported
    /\ ColdConnect =>
          /\ StatesSince = << "authenticating", "connecting", "open" >>
          /\ connection.state = "open"
          /\ ConnectionCalls = [i \in 1 .. Len(listeners["connection"]) |-> "open"]
          /\ numberOfRetry = 0
          /\ trace.before.lastFlushTime + ThrottleDelay < now =>
                /\ Len(trace.sent) = 1
                /\ trace.sent[1].messages[1] =
                      [type |-> "UPDATE_PRESENCE", targetActor |-> -1, data |-> me]
                /\ me = InitialPresence

C12_Witness ==
    /\ ColdConnect
    /\ opens = 1
    /\ trace.before.retries > 0
    /\ Len(listeners["connection"]) = 1
    /\ Len(trace.sent) = 1

\* the socket closed with a code of 4000 .. 4100
FailedClose ==
    /\ trace.op = "onClose"
    /\ trace.input[1] >= 4000
    /\ trace.input[1] <= 4100

\* C13: on a close with 4000 <= code <= 4100 users is emptied, the others
\* listeners get reset, the state becomes failed, the error listeners get the
\* code and the reason, the state becomes unavailable, and the reconnect
\* timer is set to the slow delay of the retries made so far (2000 ms when
\* the connection was open)
C13_FailedClose ==
    FailedClose =>
        /\ users = EmptyData
        /\ socket = "null"
        /\ NewStates = << "close", "failed", "unavailable" >>
        /\ connection.state = "unavailable"
        /\ trace.calls =
              Heard(<< [listener |-> "others", event |-> [type |-> "reset"]],
                       [listener |-> "connection", state |-> "failed"],
                       [listener |-> "error", code |-> trace.input[1],
                        reason |-> "closed by the server"],
                       [listener |-> "connection", state |-> "unavailable"] >>)
        /\ numberOfRetry = trace.before.retries + 1
        /\ timeoutHandles.reconnect =
              BACKOFF_RETRY_DELAYS_SLOW[
                  IF trace.before.retries < 4 THEN trace.before.retries + 1 ELSE 4]
        /\ trace.before.connection = "open" => timeoutHandles.reconnect = 2000
        /\ timeoutHandles.flush = NoTimer
        /\ ~timeoutHandles.pongTimeout
        /\ ~intervalHandles.heartbeat

\* users were known, all the listeners heard, and the connection was open
C13_Witness ==
    /\ FailedClose
    /\ trace.before.users # EmptyData
    /\ Len(trace.calls) = 4
    /\ trace.before.connection = "open"
    /\ timeoutHandles.reconnect = 2000

\* the socket closed with CLOSE_WITHOUT_RETRY and the user has made no call
\* since; the entries of connLog from that close on
ClosedForGood ==
    \E i \in 1 .. Len(connLog) : connLog[i] = "close without retry"

SinceClosedForGood ==
    LET i == CHOOSE n \in 1 .. Len(connLog) : connLog[n] = "close without retry"
    IN  SubSeq(connLog, i, Len(connLog))

\* C14: after a close with CLOSE_WITHOUT_RETRY, and until the user calls
\* connect(), the state is closed and was set to nothing else, no reconnect
\* timer is pending and there is no socket
C14_ClosedWithoutRetry ==
    ClosedForGood =>
        /\ SinceClosedForGood = << "close without retry", "closed" >>
        /\ connection.state = "closed"
        /\ timeoutHandles.reconnect = NoTimer
        /\ socket = "null"

\* the pong timer has fired
TimedOut == trace.op = "pongTimeout"

\* C15: a heartbeat on a socket arms the pong timer (and a ping goes out on
\* an OPEN socket); when the timer fires, the handlers of the socket are
\* detached and the socket is closed and dropped, the state becomes
\* unavailable, the timers and the heartbeat are cleared and connect() runs at
\* once (authenticating, and connecting on a new socket when the cached token
\* has not expired); a "pong" frame clears the pong timer and changes nothing
\* else
C15_PongTimeout ==
    /\ (trace.op = "heartbeat" /\ socket # "null") =>
          /\ timeoutHandles.pongTimeout
          /\ socket = "OPEN" => trace.sent = << PingFrame(Cur) >>
          /\ NewStates = << >>
    /\ TimedOut =>
          /\ trace.before.pong
          /\ trace.before.socket # "null"
          /\ trace.socketClosed
          /\ ~timeoutHandles.pongTimeout
          /\ timeoutHandles.flush = NoTimer
          /\ timeoutHandles.reconnect = NoTimer
          /\ ~intervalHandles.heartbeat
          /\ \/ /\ NewStates = << "unavailable", "authenticating" >>
                /\ socket = "null"
                /\ authPending = trace.before.pending + 1
             \/ /\ NewStates = << "unavailable", "authenticating", "connecting" >>
                /\ socket = "CONNECTING"
                /\ token # NullId
                /\ authPending = trace.before.pending
    /\ (trace.op = "onFrame" /\ trace.input = << PongData >>) =>
          /\ ~timeoutHandles.pongTimeout
          /\ NewStates = << >>
          /\ trace.calls = << >>
          /\ socket = "OPEN"
          /\ ~trace.socketClosed

\* the timer fired on an open socket and connect() took the cached token
C15_Witness ==
    /\ TimedOut
    /\ trace.before.connection = "open"
    /\ connection.state = "connecting"
    /\ trace.socketClosed

\* the states in which connect() is to do nothing
BusyStates == {"authenticating", "connecting", "open", "failed"}

\* the machine in state st, as connect() would find it
InState(st) ==
    [Begin("connect") EXCEPT !.connection =
        IF st \in {"connecting", "open"} THEN [state |-> st, id |-> 1]
        ELSE [state |-> st]]

\* C16: connect() called in a state other than closed and unavailable
\* leaves every field of the machine as it is, calls no listener, sets no
\* state and asks for no authentication
C16_ConnectNoOp ==
    /\ \A st \in BusyStates, expired \in BOOLEAN :
          connect(InState(st), expired) = InState(st)
    /\ (trace.op = "connect" /\ trace.before.connection \in BusyStates) =>
          /\ connection.state = trace.before.connection
          /\ StatesSince = << >>
          /\ trace.calls = << >>
          /\ trace.sent = << >>
          /\ authPending = trace.before.pending
          /\ socket = trace.before.socket
          /\ numberOfRetry = trace.before.retries

\* connect() on an open connection with a cached token
C16_Witness ==
    /\ trace.op = "connect"
    /\ trace.before.connection = "open"
    /\ connection.state = "open"
    /\ token # NullId
    /\ trace.calls = << >>

\* the machine record after disconnect() and after a second disconnect()
Disconnected1 == disconnect(Begin("disconnect"))
Disconnected2 == disconnect([Disconnected1 EXCEPT !.trace = Begin("disconnect").trace])

\* C17: disconnect() closes and drops the socket, clears the flush, the
\* reconnect and the pong timer and the heartbeat, empties users, gives closed
\* to the connection listeners and then reset to the others listeners, and
\* leaves every registry empty; a second disconnect() calls no listener and
\* changes no field
C17_Disconnect ==
    /\ trace.op = "disconnect" =>
          /\ socket = "null"
          /\ trace.socketClosed = (trace.before.socket # "null")
          /\ timeoutHandles = [flush |-> NoTimer, reconnect |-> NoTimer,
                                pongTimeout |-> FALSE]
          /\ ~intervalHandles.heartbeat
          /\ users = EmptyData
          /\ others = EmptyData
          /\ connection = [state |-> "closed"]
          /\ StatesSince = << "closed" >>
          /\ trace.calls =
                Heard(<< [listener |-> "connection", state |-> "closed"],
                         [listener |-> "others", event |-> [type |-> "reset"]] >>)
          /\ \A r \in Registries : listeners[r] = << >>
    /\ Disconnected2.trace.calls = << >>
    /\ [Disconnected2 EXCEPT !.trace = Disconnected1.trace,
                             !.connLog = Disconnected1.connLog] = Disconnected1

\* disconnect() on an open socket with users, timers and listeners
C17_Witness ==
    /\ trace.op = "disconnect"
    /\ trace.before.socket = "OPEN"
    /\ trace.before.users # EmptyData
    /\ trace.before.pong
    /\ Len(trace.calls) = 2
    /\ trace.socketClosed

----------------------------------------------------------------------------
(* Misuse: batch, undo and redo called by the callback of a batch, and      *)
(* subscribe with and without a callback, for known and unknown names.      *)

\* callbacks a registry holds at most
MaxListeners == 2

SubscribeFirsts ==
    { [kind |-> "function", callback |-> App], [kind |-> "node"],
      [kind |-> "name", name |-> "others"], [kind |-> "name", name |-> "bogus"] }

ListenerRoom == \A r \in Registries : Len(listeners[r]) < MaxListeners

NextMisuse ==
    \/ ((~isBatching => HistoryRoom) /\ BatchEnter)
    \/ \E o \in HistOverrides, h \in BOOLEAN : (HistoryRoom /\ UpdatePresence(o, h))
    \/ BatchFinally
    \/ Undo
    \/ Redo
    \/ \E first \in SubscribeFirsts, second \in {Undefined, App} :
          (ListenerRoom /\ Subscribe(first, second))

SpecMisuse == Init /\ [][NextMisuse]_vars

\* the call that gave the machine record r from the current state threw and
\* changed no field
Rejected(r) ==
    /\ r.trace.threw # ""
    /\ [r EXCEPT !.trace = Cur.trace] = Cur

\* C18: during a batch, batch(), undo() and redo() throw and change no
\* field; subscribe() with no callback (and a first argument that is no
\* function) and subscribe() with an unknown event name throw and change no
\* field; a batch whose callback made a rejected call ends with isBatching
\* false, the batch emptied and its history entry pushed
C18_Misuse ==
    /\ isBatching =>
          /\ Rejected(batchEnter(Cur))
          /\ Rejected(undo(Cur))
          /\ Rejected(redo(Cur))
    /\ \A first \in SubscribeFirsts :
          first.kind # "function" => Rejected(subscribe(Cur, first, Undefined))
    /\ Rejected(subscribe(Cur, [kind |-> "name", name |-> "bogus"], App))
    /\ (trace.op = "subscribe" /\ trace.threw # "") =>
          listeners = trace.before.listeners
    /\ (isBatching /\ trace.threw # "") =>
          (trace.calls = << >> /\ trace.sent = << >>)
    /\ (BatchDone /\ trace.threw # "") =>
          /\ ~isBatching
          /\ batch = EmptyBatch
          /\ trace.pushes = (IF trace.historied > 0 /\ ~isHistoryPaused THEN 1 ELSE 0)
          /\ Len(undoStack) = trace.before.undo + trace.pushes

\* a batch with a historied mutation and a rejected nested batch is over
C18_Witness ==
    /\ BatchDone
    /\ trace.threw = "batch should not be called during a batch"
    /\ trace.historied > 0
    /\ trace.pushes = 1

----------------------------------------------------------------------------
(* Frames: the server sends messages about the others, and frames that are  *)
(* no JSON text or hold no JSON object.                                     *)

JsonNumber == [json |-> "number"]
JsonNull == [json |-> "null"]
JsonArray(items) == [json |-> "array", items |-> items]
JsonObject(msg) == [json |-> "object", msg |-> msg]
JsonText(value) == [text |-> "json", value |-> value]

\* frames that are not valid JSON or hold no JSON object
DroppedFrames ==
    { [text |-> "invalid"], JsonText(JsonNumber), JsonText(JsonNull),
      JsonText(JsonArray(<< >>)), JsonText(JsonArray(<< JsonNumber, JsonNull >>)),
      JsonText(JsonArray(<< JsonArray(<< JsonNumber >>) >>)) }

\* frames that hold a message among values that are none
MixedFrames ==
    { JsonText(JsonObject(UserLeft(7))),
      JsonText(JsonArray(<< JsonNumber, JsonObject(UserLeft(7)), JsonNull >>)) }

FrameMessages ==
    { << RoomState({7}) >>, << RoomState({7, 8}) >>, << UserLeft(8) >> }
        \cup { << Broadcast(7, d) >> : d \in OthersData }

NextFrames ==
    \/ (connection.state = "closed" /\ Connect(FALSE))
    \/ AuthResolved(1)
    \/ OnOpen
    \/ \E messages \in FrameMessages : OnMessage(messages)
    \/ \E data \in DroppedFrames \cup MixedFrames : OnFrame(data)
    \/ Heartbeat
    \/ \E o \in HistOverrides : (HistoryRoom /\ UpdatePresence(o, TRUE))

SpecFrames == Init /\ [][NextFrames]_vars

\* C19: the handler of a frame that is not valid JSON, or whose content
\* holds no JSON object, leaves every field of the machine as it is (users,
\* presence, storage, history, buffers, timers, connection), sends nothing and
\* calls no listener
C19_MalformedDropped ==
    /\ \A data \in DroppedFrames :
          onMessage(Begin("onFrame"), data) = Begin("onFrame")
    /\ (trace.op = "onFrame" /\ trace.input[1] \in DroppedFrames) =>
          /\ trace.calls = << >>
          /\ trace.sent = << >>
          /\ users = trace.before.users
          /\ me = trace.before.me
          /\ buffer.presence = trace.before.presence
          /\ Len(undoStack) = trace.before.undo
          /\ connection.state = trace.before.connection
          /\ timeoutHandles.pongTimeout = trace.before.pong

\* a dropped frame came while users were known and the pong timer ran
C19_Witness ==
    /\ trace.op = "onFrame"
    /\ trace.input[1] \in DroppedFrames
    /\ users # EmptyData
    /\ timeoutHandles.pongTimeout
    /\ undoStack # << >>

----------------------------------------------------------------------------
(* Undo and redo of presence updates of both keys, of storage mutations and *)
(* of batches of them.                                                      *)

UndoOverrides == { k :> 1 : k \in PresenceKeys }

NextUndo ==
    \/ (connection.state = "closed" /\ Connect(FALSE))
    \/ AuthResolved(1)
    \/ OnOpen
    \/ \E items \in StorageItems :
          (~root.loaded /\ OnMessage(<< [type |-> "INITIAL_STORAGE_STATE",
                                        items |-> items] >>))
    \/ \E o \in UndoOverrides, h \in BOOLEAN : (HistoryRoom /\ UpdatePresence(o, h))
    \/ \E k \in StorageKeys, v \in Vals : (HistoryRoom /\ StorageSet(k, v))
    \/ (~isBatching /\ OpsRoom /\ Undo)
    \/ (~isBatching /\ OpsRoom /\ Redo)
    \/ (~isBatching /\ HistoryRoom /\ BatchEnter)
    \/ BatchFinally

SpecUndo == Init /\ [][NextUndo]_vars

\* the handler called the listeners of each kind at most once, and the
\* history listeners once
NotifiedOnce ==
    /\ Len(CallsTo("history")) = 1
    /\ Len(CallsTo("my-presence")) <= 1
    /\ Len(CallsTo("storage")) <= 1

\* the ops the handler applied were applied as local ones and wait to be sent
AppliedAsLocal ==
    \A i \in 1 .. Len(trace.applied) :
        /\ trace.applied[i].source = "UNDOREDO_RECONNECT"
        /\ trace.applied[i].opId \in OfflineIds(offlineOperations)
        /\ socket = "OPEN" =>
              \/ \E j \in 1 .. Len(buffer.storageOperations) :
                    buffer.storageOperations[j].opId = trace.applied[i].opId
              \/ \E j \in 1 .. Len(trace.sent) :
                    trace.applied[i].opId \in FrameOpIds(trace.sent[j])

UndoMechanics ==
    (trace.op = "undo" /\ trace.before.undo > 0) =>
        /\ Len(undoStack) = trace.before.undo - 1
        /\ Len(redoStack) = trace.before.redo + 1
        /\ NotifiedOnce
        /\ AppliedAsLocal

RedoMechanics ==
    (trace.op = "redo" /\ trace.before.redo > 0) =>
        /\ Len(redoStack) = trace.before.redo - 1
        /\ Len(undoStack) = trace.before.undo + 1
        /\ NotifiedOnce
        /\ AppliedAsLocal

EmptyStackNoOp ==
    ~isBatching =>
        /\ undoStack = << >> => undo(Begin("undo")) = Begin("undo")
        /\ redoStack = << >> => redo(Begin("redo")) = Begin("redo")

\* a batch of two historied presence updates, one of each key, is over
TwoKeyBatchDone ==
    /\ BatchDone
    /\ trace.mutations = 2
    /\ trace.historied = 2
    /\ trace.storageKeys = {}
    /\ trace.pushes = 1
    /\ UNION { DOMAIN Last(undoStack)[i].data : i \in 1 .. Len(Last(undoStack)) }
           = PresenceKeys

\* the undo of that batch gives both keys the values they had before the
\* batch, in one call of the my-presence listeners
BatchUndone ==
    TwoKeyBatchDone =>
        \A r \in { undo(Begin("undo")) } :
            /\ r.me = trace.before.me
            /\ SelectSeq(r.trace.calls, LAMBDA c : c.listener = "my-presence")
                  = << [listener |-> "my-presence", me |-> trace.before.me] >>
            /\ Len(r.redoStack) = trace.before.redo + 1
            /\ trace.before.redo = 0 => Len(r.redoStack) = 1

\* C20: undo with an entry on the undo stack pops one entry, applies it as
\* local, pushes one entry on the redo stack, notifies once and queues the
\* non-presence ops of the entry; redo mirrors it; each does nothing on an
\* empty stack; the undo of a batch of two historied presence updates restores
\* both keys in one notification and leaves one entry on the redo stack
C20_UndoRedo ==
    /\ UndoMechanics
    /\ RedoMechanics
    /\ EmptyStackNoOp
    /\ BatchUndone

----------------------------------------------------------------------------
(* Runs of pauseHistory, historied mutations, resumeHistory and undo, made  *)
(* from every state of the history specification.                           *)

\* the historied mutations of a run: a presence update, a set on the root
PausedMutations ==
    { [kind |-> "presence", overrides |-> o] : o \in HistOverrides }
        \cup { [kind |-> "storage", key |-> k, value |-> 1] : k \in StorageKeys }

PausedRuns ==
    { << >> } \cup { << a >> : a \in PausedMutations }
        \cup { << a, b >> : a \in PausedMutations, b \in PausedMutations }

mutate(m, mutation) ==
    IF mutation.kind = "presence"
    THEN updatePresence(m, mutation.overrides, TRUE)
    ELSE LiveObjectSet(m, mutation.key, mutation.value)

RECURSIVE mutateAll(_, _)
mutateAll(m, run) ==
    IF run = << >> THEN m
    ELSE CHOOSE result \in { mutateAll(next, Tail(run)) :
                                next \in { mutate(m, Head(run)) } } : TRUE

\* the run can be made: no batch is open, and the root is loaded when the run
\* sets a key of it
CanRun(run) ==
    /\ ~isBatching
    /\ (\E i \in 1 .. Len(run) : run[i].kind = "storage") => root.loaded

\* C21: between pauseHistory() and resumeHistory() historied mutations leave
\* the undo stack as it was and are collected in pausedHistory; resumeHistory()
\* appends one entry that holds all of them (none when nothing was collected);
\* one undo() of that entry gives presence and the storage root the values
\* they had at pauseHistory()
C21_PauseResume ==
    \A run \in PausedRuns :
        CanRun(run) =>
            \A paused \in { pauseHistory(Begin("pauseHistory")) } :
            \A mutated \in { mutateAll(paused, run) } :
            \A resumed \in { resumeHistory(mutated) } :
            \A undone \in { undo(resumed) } :
                /\ mutated.undoStack = undoStack
                /\ Len(mutated.pausedHistory) = Len(run)
                /\ resumed.pausedHistory = << >>
                /\ resumed.undoStack =
                      (IF run = << >> THEN undoStack
                       ELSE Append(undoStack, mutated.pausedHistory))
                /\ run # << >> =>
                      /\ undone.undoStack = undoStack
                      /\ undone.me = me
                      /\ undone.root.data = root.data

----------------------------------------------------------------------------
(* Subscriptions: callbacks are added to the my-presence and the storage    *)
(* registries and taken out by their handles, between notifications.        *)

Callbacks == { App, Fn("other") }

SubscribedFirsts ==
    { [kind |-> "function", callback |-> c] : c \in Callbacks }
        \cup { [kind |-> "node"], [kind |-> "name", name |-> "my-presence"] }

\* the callbacks a handle can exist for
Handles ==
    Callbacks \cup { << c[1], n >> : c \in Callbacks, n \in 1 .. MaxListeners + 1 }

NextSubscribe ==
    \/ (connection.state = "closed" /\ Connect(FALSE))
    \/ AuthResolved(1)
    \/ OnOpen
    \/ \E items \in StorageItems :
          (~root.loaded /\ OnMessage(<< [type |-> "INITIAL_STORAGE_STATE",
                                        items |-> items] >>))
    \/ \E first \in SubscribedFirsts, second \in Callbacks :
          (ListenerRoom /\ Subscribe(first, second))
    \/ \E r \in {"my-presence", "storage"}, c \in Handles : Unsubscribe(r, c)
    \/ \E o \in HistOverrides : UpdatePresence(o, FALSE)
    \/ \E k \in StorageKeys, v \in Vals : (OpsRoom /\ HistoryRoom /\ StorageSet(k, v))

SpecSubscribe == Init /\ [][NextSubscribe]_vars

\* the callbacks of the registry the handler invoked, in the order of the calls
Invoked(registry) ==
    LET calls == SelectSeq(trace.invoked, LAMBDA c : c[1] = registry)
    IN  [i \in 1 .. Len(calls) |-> calls[i][2]]

\* the calls are rounds of the callbacks in the order of the sequence
InRounds(calls, callbacks) ==
    IF callbacks = << >> THEN calls = << >>
    ELSE /\ Len(calls) % Len(callbacks) = 0
         /\ \A i \in 1 .. Len(calls) :
               calls[i] = callbacks[((i - 1) % Len(callbacks)) + 1]

\* the registry and the callback of the subscribe call that just returned
SubscribedTo ==
    IF trace.input[1].kind = "name" THEN trace.input[1].name ELSE "storage"

\* C22: the handle of a subscription takes its callback out of its registry
\* and leaves the other callbacks, and the other registries, as they were, in
\* their order; subscribe puts the new callback behind the ones registered;
\* a notification calls the callbacks that are registered when the handler
\* runs, and no other, in the order they were registered
C22_Unsubscribe ==
    /\ trace.op = "unsubscribe" =>
          /\ \A i \in 1 .. Len(listeners[trace.input[1]]) :
                listeners[trace.input[1]][i] # trace.input[2]
          /\ listeners[trace.input[1]] =
                SelectSeq(trace.before.listeners[trace.input[1]],
                          LAMBDA c : c # trace.input[2])
          /\ \A r \in Registries \ {trace.input[1]} :
                listeners[r] = trace.before.listeners[r]
          /\ trace.invoked = << >>
    /\ (trace.op = "subscribe" /\ trace.threw = "") =>
          /\ Len(listeners[SubscribedTo]) = Len(trace.before.listeners[SubscribedTo]) + 1
          /\ Front(listeners[SubscribedTo]) = trace.before.listeners[SubscribedTo]
          /\ \A r \in Registries \ {SubscribedTo} :
                listeners[r] = trace.before.listeners[r]
    /\ trace.before.valid =>
          \A r \in Registries : InRounds(Invoked(r), trace.before.listeners[r])
    /\ trace.op = "updatePresence" =>
          Invoked("my-presence") = trace.before.listeners["my-presence"]
    /\ trace.op = "storage" =>
          Invoked("storage") = trace.before.listeners["storage"]

\* a presence update is heard by two callbacks, the first of them registered
\* after the callback of the initial state was taken out
C22_Witness ==
    /\ trace.op = "updatePresence"
    /\ Len(listeners["my-presence"]) = 2
    /\ listeners["my-presence"][1] # App
    /\ listeners["my-presence"][2] = App
    /\ Invoked("my-presence") = listeners["my-presence"]

----------------------------------------------------------------------------
(* Reconnections: the socket closes and opens again while presence changes, *)
(* with the storage loaded on the first connection or not at all.           *)

NextReopen ==
    \/ (connection.state = "closed" /\ Connect(FALSE))
    \/ AuthResolved(1)
    \/ OnOpen
    \/ (numberOfRetry < MaxRetry /\ OnClose(1006))
    \/ ReconnectTimer(FALSE)
    \/ \E items \in StorageItems :
          (~root.loaded /\ opens = 1
             /\ OnMessage(<< [type |-> "INITIAL_STORAGE_STATE", items |-> items] >>))
    \/ \E o \in ThrottleOverrides : UpdatePresence(o, FALSE)
    \/ Tick
    \/ FlushTimer

SpecReopen == Init /\ [][NextReopen]_vars

FullPresence(m) == [type |-> "full", data |-> m.me]
FullPresenceMessage(m) ==
    [type |-> "UPDATE_PRESENCE", targetActor |-> -1, data |-> m.me]
FetchStorage == [type |-> "FETCH_STORAGE"]

\* the socket of a reconnection is about to open
Reopening ==
    /\ ~isBatching
    /\ socket = "CONNECTING"
    /\ connection.state = "connecting"
    /\ lastConnectionId # NullId

\* C23: the handler of open of a reconnection replaces the presence buffer by
\* a full update of state.me and queues FETCH_STORAGE if and only if the root
\* is loaded; the full update stays in the buffer, with the data of state.me,
\* until a frame is sent, and the first frame sent begins with the full
\* presence (targetActor -1) with the data of state.me
C23_ReconnectPresence ==
    /\ Reopening =>
          \A r \in { onOpen([Begin("onOpen") EXCEPT !.socket = "OPEN"]) } :
              LET fetch == IF root.loaded THEN << FetchStorage >> ELSE << >>
              IN  IF r.trace.sent = << >>
                  THEN /\ r.buffer.presence = FullPresence(r)
                       /\ r.buffer.messages = buffer.messages \o fetch
                  ELSE /\ Len(r.trace.sent) = 1
                       /\ r.trace.sent[1].messages =
                             << FullPresenceMessage(r) >> \o buffer.messages
                       /\ r.buffer.presence.type = "null"
                       /\ r.buffer.messages = fetch
    /\ (trace.before.valid /\ trace.before.presence.type = "full"
           /\ trace.before.connection = "open") =>
          /\ trace.sent = FlushFrames
          /\ IF trace.sent = << >> THEN buffer.presence = FullPresence(Cur)
             ELSE trace.sent[1].messages[1] = FullPresenceMessage(Cur)
    /\ (trace.op = "onOpen" /\ trace.before.connection = "connecting") =>
          IF trace.sent = << >> THEN buffer.presence = FullPresence(Cur)
          ELSE trace.sent[1].messages[1] = FullPresenceMessage(Cur)

\* the flush timer of a reconnection sends the full presence, changed since
\* the socket opened, and FETCH_STORAGE in the first frame
C23_Witness ==
    /\ trace.op = "flushTimer"
    /\ opens >= 2
    /\ trace.before.presence.type = "full"
    /\ Len(trace.sent) = 1
    /\ trace.sent[1].messages = << FullPresenceMessage(Cur), FetchStorage >>
    /\ me # InitialPresence

----------------------------------------------------------------------------
(* The presence buffer: updates, undo and redo of presence on a socket that *)
(* opens, closes and opens again, with the flushes throttled.               *)

NextCoalesce ==
    \/ (connection.state = "closed" /\ Connect(FALSE))
    \/ AuthResolved(1)
    \/ OnOpen
    \/ (numberOfRetry < MaxRetry /\ OnClose(1006))
    \/ ReconnectTimer(FALSE)
    \/ \E o \in UndoOverrides, h \in BOOLEAN : (HistoryRoom /\ UpdatePresence(o, h))
    \/ Undo
    \/ Redo
    \/ Tick
    \/ FlushTimer

SpecCoalesce == Init /\ [][NextCoalesce]_vars

\* the keys and values of the presence items of a history entry, in order
RECURSIVE PresenceOf(_)
PresenceOf(item) ==
    IF item = << >> THEN EmptyData
    ELSE IF Head(item).type = "presence"
         THEN Merge(Head(item).data, PresenceOf(Tail(item)))
         ELSE PresenceOf(Tail(item))

HasPresenceItem(item) == \E i \in 1 .. Len(item) : item[i].type = "presence"

\* the buffered presence after the keys have been queued: an empty buffer
\* becomes a partial update of these keys, a queued update keeps its kind
Coalesced(queued, data) ==
    IF queued.type = "null" THEN [type |-> "partial", data |-> data]
    ELSE [type |-> queued.type, data |-> Merge(queued.data, data)]

PresenceMessage(queued) ==
    IF queued.type = "full"
    THEN [type |-> "UPDATE_PRESENCE", targetActor |-> -1, data |-> queued.data]
    ELSE [type |-> "UPDATE_PRESENCE", data |-> queued.data]

\* the handler that gave r left the update queued, or sent it first in a
\* frame and left the buffer null
QueuedOrSent(r, queued) ==
    IF r.trace.sent = << >> THEN r.buffer.presence = queued
    ELSE /\ r.buffer.presence = NullPresence
         /\ r.trace.sent[1].messages[1] = PresenceMessage(queued)

\* C24: updatePresence and the presence items of undo and redo leave a
\* queued full update full and a queued partial update partial, with their
\* keys merged in; an empty buffer becomes a partial update of exactly the
\* keys changed; the buffer is null after every flush that sent a frame
C24_Coalescing ==
    /\ \A o \in UndoOverrides, h \in BOOLEAN :
          \A r \in { updatePresence(Begin("updatePresence"), o, h) } :
              QueuedOrSent(r, Coalesced(buffer.presence, o))
    /\ (undoStack # << >> /\ HasPresenceItem(Last(undoStack))) =>
          \A r \in { undo(Begin("undo")) } :
              QueuedOrSent(r, Coalesced(buffer.presence, PresenceOf(Last(undoStack))))
    /\ (redoStack # << >> /\ HasPresenceItem(Last(redoStack))) =>
          \A r \in { redo(Begin("redo")) } :
              QueuedOrSent(r, Coalesced(buffer.presence, PresenceOf(Last(redoStack))))
    /\ FlushFrames # << >> => buffer.presence = NullPresence
    /\ \A r \in { tryFlushing(Begin("flush")) } :
          r.trace.sent # << >> => r.buffer = EmptyBuffer

\* an undo merged its keys into the full update queued when the socket opened
C24_Witness ==
    /\ trace.op = "undo"
    /\ trace.before.presence.type = "full"
    /\ trace.before.undo > 0
    /\ buffer.presence.type = "full"
    /\ buffer.presence.data = me
    /\ opens >= 1

----------------------------------------------------------------------------
(* Flushes: presence, messages to users who join and storage ops are        *)
(* buffered while the flushes are throttled, on a socket that can close.    *)

NextFlush ==
    \/ (connection.state = "closed" /\ Connect(FALSE))
    \/ AuthResolved(1)
    \/ OnOpen
    \/ (numberOfRetry < MaxRetry /\ OnClose(1006))
    \/ ReconnectTimer(FALSE)
    \/ \E items \in StorageItems :
          (~root.loaded /\ OnMessage(<< [type |-> "INITIAL_STORAGE_STATE",
                                        items |-> items] >>))
    \/ (Len(buffer.messages) < MaxQueued /\ OnMessage(<< UserJoined(7) >>))
    \/ \E o \in HistOverrides : UpdatePresence(o, FALSE)
    \/ \E k \in StorageKeys : (OpsRoom /\ HistoryRoom /\ StorageSet(k, 1))
    \/ Tick
    \/ FlushTimer

SpecFlush == Init /\ [][NextFlush]_vars

\* the messages of the frame a flush of the buffer sends
FlushOrder(queued) ==
    (IF queued.presence.type = "null" THEN << >>
     ELSE << PresenceMessage(queued.presence) >>)
        \o queued.messages
        \o (IF queued.storageOperations = << >> THEN << >>
            ELSE << [type |-> "UPDATE_STORAGE", ops |-> queued.storageOperations] >>)

StorageMessages(frame) ==
    { i \in 1 .. Len(frame.messages) : frame.messages[i].type = "UPDATE_STORAGE" }

\* C25: the frame of a flush holds the buffered presence update, if any,
\* first, then the buffered client messages in their order, then, if ops are
\* buffered, one UPDATE_STORAGE with all of them in their order; no frame
\* holds an UPDATE_STORAGE with no op
C25_FlushOrder ==
    /\ \A r \in { tryFlushing(Begin("flush")) } :
          r.trace.sent # << >> =>
              /\ Len(r.trace.sent) = 1
              /\ r.trace.sent[1].messages = FlushOrder(buffer)
    /\ \A i \in 1 .. Len(FlushFrames) :
          /\ StorageMessages(FlushFrames[i]) \subseteq {Len(FlushFrames[i].messages)}
          /\ \A j \in 2 .. Len(FlushFrames[i].messages) :
                FlushFrames[i].messages[j].type = "UPDATE_PRESENCE" =>
                    FlushFrames[i].messages[j].targetActor # -1
    /\ \A i \in 1 .. Len(trace.sent) :
          \A j \in StorageMessages(trace.sent[i]) :
              trace.sent[i].messages[j].ops # << >>

\* a flush sent a presence update, a message to a user who joined and two
\* storage ops in one frame
C25_Witness ==
    /\ trace.op = "flushTimer"
    /\ Len(trace.sent) = 1
    /\ Len(trace.sent[1].messages) = 3
    /\ trace.sent[1].messages[1].type = "UPDATE_PRESENCE"
    /\ "targetActor" \notin DOMAIN trace.sent[1].messages[1]
    /\ trace.sent[1].messages[2].type = "UPDATE_PRESENCE"
    /\ trace.sent[1].messages[2].targetActor = 7
    /\ trace.sent[1].messages[3].type = "UPDATE_STORAGE"
    /\ Len(trace.sent[1].messages[3].ops) = 2

\* every op of the sequence is in the offline operations, under its opId
Recorded(ops, offline) ==
    \A i \in 1 .. Len(ops) :
        /\ \E j \in 1 .. Len(offline) : offline[j] = ops[i]
        /\ Cardinality({ j \in 1 .. Len(offline) : offline[j].opId = ops[i].opId }) = 1

\* C26: tryFlushing records every buffered storage op in offlineOperations
\* under its opId, the socket open or not; with no socket, or a socket that is
\* not OPEN, it empties the buffer of storage ops, sends nothing, arms no
\* timer and leaves the buffered presence and client messages as they are
C26_OfflineFlush ==
    \A r \in { tryFlushing(Begin("flush")) } :
        /\ Recorded(buffer.storageOperations, r.offlineOperations)
        /\ socket # "OPEN" =>
              /\ r.buffer.storageOperations = << >>
              /\ r.trace.sent = << >>
              /\ r.timeoutHandles = timeoutHandles
              /\ r.buffer.presence = buffer.presence
              /\ r.buffer.messages = buffer.messages
              /\ [r EXCEPT !.buffer = buffer, !.offlineOperations = offlineOperations]
                    = Begin("flush")

\* the socket closed on buffered storage ops, presence and client messages
C26_Witness ==
    /\ trace.op = "onClose"
    /\ socket = "null"
    /\ buffer.storageOperations # << >>
    /\ buffer.presence.type = "partial"
    /\ buffer.messages # << >>
    /\ tryFlushing(Cur).buffer.storageOperations = << >>

----------------------------------------------------------------------------
(* apply on ops that create a live object under the root, create a second   *)
(* one under the first, and update them.                                    *)

CreateObject(id, parentId, n) ==
    [type |-> "CREATE_OBJECT", id |-> id, parentId |-> parentId,
     parentKey |-> "child", data |-> [k \in StorageKeys |-> 0], opId |-> << 7, n >>]
UpdateObject(id, n) ==
    [type |-> "UPDATE_OBJECT", id |-> id, data |-> [k \in StorageKeys |-> 1],
     opId |-> << 7, n >>]

ApplyItems ==
    { << CreateObject("n1", RootId, 1) >>,
      << CreateObject("n1", RootId, 1), UpdateObject("n1", 2) >>,
      << CreateObject("n1", RootId, 1), CreateObject("n2", "n1", 2) >>,
      << CreateObject("n1", RootId, 1), CreateObject("n2", "n1", 2),
         UpdateObject("n2", 3) >>,
      << UpdateObject(RootId, 1), CreateObject("n1", RootId, 2) >> }

\* the reverse ops the op engine gives for the ops of the item that it
\* reports as modified, those of a later op before those of an earlier one
RECURSIVE EngineReverses(_, _, _)
EngineReverses(m, item, source) ==
    IF item = << >> THEN << >>
    ELSE LET r == applyOp(m, Head(item), source)
         IN  EngineReverses(r.m, Tail(item), source)
                 \o (IF r.modified THEN r.reverse ELSE << >>)

\* the nodes of the item whose parent an earlier op of the item created
UnderCreated(item) ==
    { item[i].id : i \in { n \in 1 .. Len(item) :
          \E k \in 1 .. n - 1 :
              /\ item[k].type = "CREATE_OBJECT"
              /\ \/ (item[n].type = "CREATE_OBJECT" /\ item[n].parentId = item[k].id)
                 \/ (item[n].type = "UPDATE_OBJECT" /\ item[n].id # item[k].id
                        /\ \E j \in 1 .. n - 1 :
                              /\ item[j].type = "CREATE_OBJECT"
                              /\ item[j].id = item[n].id
                              /\ item[j].parentId = item[k].id) } }

\* C27: apply puts the reverse ops of every op the op engine reports as
\* modified at the front of the reverse list it returns, also for a node
\* whose parent an earlier op of the same call created; for such a node only
\* the storage update is left out
C27_ApplyReverse ==
    (root.loaded /\ ~isBatching) =>
        \A item \in ApplyItems, isLocal \in BOOLEAN :
            \A r \in { apply(Begin("apply"), item, isLocal) } :
                /\ r.reverse =
                      EngineReverses(Begin("apply"), item,
                                     IF isLocal THEN "UNDOREDO_RECONNECT" ELSE "REMOTE")
                /\ DOMAIN r.storageUpdates =
                      { item[i].id : i \in 1 .. Len(item) } \ UnderCreated(item)

----------------------------------------------------------------------------
(* The heartbeat on a socket that opens, stops being OPEN and closes.       *)

NextHeartbeat ==
    \/ (connection.state = "closed" /\ Connect(FALSE))
    \/ AuthResolved(1)
    \/ OnOpen
    \/ SocketClosing
    \/ (numberOfRetry < MaxRetry /\ OnClose(1006))
    \/ ReconnectTimer(FALSE)
    \/ Heartbeat
    \/ PongTimeout(FALSE)
    \/ OnFrame(PongData)
    \/ \E o \in HistOverrides : UpdatePresence(o, FALSE)

SpecHeartbeat == Init /\ [][NextHeartbeat]_vars

Pings == SelectSeq(trace.sent, LAMBDA f : f.by = "heartbeat")

\* C28: heartbeat() arms the pong timeout only when it sends "ping", which it
\* does only on a socket that is OPEN; on a socket that is there but not OPEN
\* it sends nothing and leaves the pong timeout as it was, so that no pong
\* timeout, and no reconnect, comes of it
C28_HeartbeatOpenOnly ==
    trace.op = "heartbeat" =>
        /\ Len(Pings) = (IF trace.before.socket = "OPEN" THEN 1 ELSE 0)
        /\ trace.before.socket # "OPEN" =>
              (trace.sent = << >> /\ timeoutHandles.pongTimeout = trace.before.pong)

----------------------------------------------------------------------------
(* The counters of the ids over two connections of one machine.             *)

NextClocks ==
    \/ (connection.state = "closed" /\ Connect(FALSE))
    \/ AuthResolved(1)
    \/ OnOpen
    \/ (numberOfRetry < MaxRetry /\ OnClose(1006))
    \/ ReconnectTimer(FALSE)
    \/ \E items \in StorageItems :
          (~root.loaded /\ OnMessage(<< [type |-> "INITIAL_STORAGE_STATE",
                                        items |-> items] >>))
    \/ \E k \in StorageKeys : (OpsRoom /\ HistoryRoom /\ StorageSet(k, 1))
    \/ GenerateId

SpecClocks == Init /\ [][NextClocks]_vars

\* the op ids generated first after the socket has opened once more
FirstOfConnection ==
    { i \in 1 .. Len(opIdLog) :
        \A j \in 1 .. (i - 1) : opIdLog[j].opens # opIdLog[i].opens }

\* C30: clock and opClock are 0 again on each new connection, and the first
\* id that is generated after a reconnection has 0 as its counter
C30_ResetOnConnection ==
    /\ (trace.op = "authResolved" /\ connection.state = "connecting") =>
          (clock = 0 /\ opClock = 0)
    /\ \A i \in FirstOfConnection : opIdLog[i].opId[2] = 0

\* C30: clock and opClock start at 0 and are never set back: each id takes
\* the value of its counter and adds one to it, and connecting, opening and
\* closing leave both counters alone, so that the first id after a
\* reconnection carries the number of ids generated on the machine before it
C30_CountersNeverReset ==
    /\ opClock = Len(opIdLog)
    /\ \A i \in 1 .. Len(opIdLog) : opIdLog[i].opId[2] = i - 1
    /\ trace.before.valid =>
          IF trace.op = "generateId"
          THEN /\ clock = trace.before.clock + 1
               /\ trace.ids = << << getConnectionId(Cur), trace.before.clock >> >>
          ELSE clock = trace.before.clock

C30_Witness ==
    /\ opens = 2
    /\ trace.op = "generateId"
    /\ trace.ids = << << 1, 1 >> >>
    /\ \E i \in FirstOfConnection : opIdLog[i].opens = 2 /\ opIdLog[i].opId[2] = 1

----------------------------------------------------------------------------
(* Frames of several messages: storage updates, presence, events.           *)

UpdateStorage(ops) == [type |-> "UPDATE_STORAGE", ops |-> ops]
InitialStorage(items) == [type |-> "INITIAL_STORAGE_STATE", items |-> items]
EventMessage(actor) == [type |-> "BROADCASTED_EVENT", actor |-> actor]

\* frames with no INITIAL_STORAGE_STATE message
UpdateFrames ==
    { << UpdateStorage(<< UpdateObject(RootId, 1) >>),
         UpdateStorage(<< CreateObject("n1", RootId, 2) >>) >>,
      << UpdateStorage(<< CreateObject("n1", RootId, 2) >>),
         UpdateStorage(<< UpdateObject("n1", 3) >>) >>,
      << UpdateStorage(<< UpdateObject(RootId, 1) >>),
         UpdateStorage(<< CreateObject("n1", RootId, 2) >>),
         UpdateStorage(<< UpdateObject("n1", 3) >>) >>,
      << UserJoined(7), UpdateStorage(<< UpdateObject(RootId, 1) >>),
         Broadcast(7, [x |-> 1]), UserLeft(7) >>,
      << UserJoined(8), EventMessage(8),
         UpdateStorage(<< UpdateObject(RootId, 1) >>),
         UpdateStorage(<< CreateObject("n1", RootId, 2) >>) >>,
      << UserLeft(8), EventMessage(7) >> }

\* frames with an INITIAL_STORAGE_STATE message
InitialFrames ==
    { << InitialStorage(items) >> : items \in StorageItems }
        \cup { << InitialStorage(items),
                  UpdateStorage(<< UpdateObject(RootId, 1) >>) >> :
                    items \in StorageItems }

InboundFrames == UpdateFrames \cup InitialFrames

NextInbound ==
    \/ (connection.state = "closed" /\ Connect(FALSE))
    \/ AuthResolved(1)
    \/ OnOpen
    \/ (numberOfRetry < MaxRetry /\ OnClose(1006))
    \/ ReconnectTimer(FALSE)
    \/ \E frame \in InboundFrames :
          /\ frame[1].type # "INITIAL_STORAGE_STATE" => root.loaded
          /\ (frame[1].type = "INITIAL_STORAGE_STATE" /\ root.loaded
                 /\ root.data # frame[1].items) => opClock < MaxOps
          /\ frame[1].type = "USER_JOINED" => Len(buffer.messages) < MaxQueued
          /\ OnMessage(frame)
    \/ \E k \in StorageKeys : (OpsRoom /\ HistoryRoom /\ StorageSet(k, 1))

SpecInbound == Init /\ [][NextInbound]_vars

MessagesOf(frame, type) == SelectSeq(frame, LAMBDA message : message.type = type)

\* the calls each callback of the registry got
PerListener(listener) ==
    LET calls == CallsTo(listener)
        k == Len(listeners[listener])
    IN  IF k = 0 THEN << >> ELSE [i \in 1 .. (Len(calls) \div k) |-> calls[i * k]]

\* the type of the others-event a message makes, when it makes one
OthersEventType(message) ==
    CASE message.type = "USER_JOINED" -> "enter"
      [] message.type = "USER_LEFT" -> "leave"
      [] message.type = "UPDATE_PRESENCE" -> "update"
      [] message.type = "ROOM_STATE" -> "reset"
      [] OTHER -> "none"

\* s is t with some of its elements left out
RECURSIVE IsSubSeq(_, _)
IsSubSeq(s, t) ==
    IF s = << >> THEN TRUE
    ELSE IF t = << >> THEN FALSE
    ELSE IF s[1] = t[1] THEN IsSubSeq(Tail(s), Tail(t))
    ELSE IsSubSeq(s, Tail(t))

\* the keys the UPDATE_STORAGE messages of the frame change, for each node,
\* each message applied in its turn
RECURSIVE ModifiedKeys(_, _, _)
ModifiedKeys(m, frame, i) ==
    IF i > Len(frame) THEN [n \in {} |-> {}]
    ELSE IF frame[i].type # "UPDATE_STORAGE" THEN ModifiedKeys(m, frame, i + 1)
    ELSE CHOOSE keys \in
           { [n \in (DOMAIN result.storageUpdates) \cup (DOMAIN rest) |->
                 (IF n \in DOMAIN result.storageUpdates
                  THEN result.storageUpdates[n].updates ELSE {})
                   \cup (IF n \in DOMAIN rest THEN rest[n] ELSE {})] :
               result \in { apply(m, frame[i].ops, FALSE) },
               rest \in { ModifiedKeys(apply(m, frame[i].ops, FALSE).m, frame, i + 1) }
           } : TRUE

\* the positions in trace.calls of the calls to the listeners of a registry
PositionsOf(listener) ==
    { i \in 1 .. Len(trace.calls) : trace.calls[i].listener = listener }

\* the others listeners of the frame: the events in the order of their
\* messages, each after every call made while the messages were processed
OthersInOrder ==
    /\ IsSubSeq([i \in 1 .. Len(PerListener("others")) |->
                    PerListener("others")[i].event.type],
                SelectSeq([i \in 1 .. Len(trace.input) |->
                              OthersEventType(trace.input[i])],
                          LAMBDA type : type # "none"))
    /\ \A i \in PositionsOf("others") :
          \A j \in PositionsOf("event") \cup PositionsOf("storageHasLoaded") : j < i
    /\ PositionsOf("others") # {} => others = makeOthers(users)

\* the storage listeners got one call, with the merged update of each node
\* the frame modified, or no call when it modified none
MergedOnce(r, frame) ==
    LET keys == ModifiedKeys(Cur, frame, 1)
        calls == SelectSeq(r.trace.calls, LAMBDA c : c.listener = "storage")
    IN  IF DOMAIN keys = {} THEN calls = << >>
        ELSE /\ Len(calls) = Len(listeners["storage"])
             /\ \A i \in 1 .. Len(calls) :
                   /\ DOMAIN calls[i].updates = DOMAIN keys
                   /\ \A n \in DOMAIN keys : calls[i].updates[n].updates = keys[n]

----------------------------------------------------------------------------
(* The delays of the reconnections over runs of failures.                   *)

\* failures in a row: one more than the longer schedule has entries
MaxFailures == 8

\* the long runs of failures come before the socket has opened
FailureRoom == numberOfRetry < (IF opens = 0 THEN MaxFailures ELSE MaxRetry)

NextBackoff ==
    \/ (connection.state = "closed" /\ Connect(FALSE))
    \/ AuthResolved(1)
    \/ (FailureRoom /\ AuthRejected)
    \/ OnOpen
    \/ \E code \in {1006, 4001} : (FailureRoom /\ OnClose(code))
    \/ \E expired \in BOOLEAN : ReconnectTimer(expired)

SpecBackoff == Init /\ [][NextBackoff]_vars

\* the entry of the schedule for a number of failures, the last one at most
ScheduleEntry(schedule, failures) ==
    schedule[IF failures < Len(schedule) THEN failures + 1 ELSE Len(schedule)]

\* the handler was a failure of a connection attempt that is tried again
FailedAttempt ==
    \/ trace.op = "authRejected"
    \/ trace.op = "onClose" /\ trace.input[1] # CLOSE_WITHOUT_RETRY

SlowFailure ==
    trace.op = "onClose" /\ trace.input[1] >= 4000 /\ trace.input[1] <= 4100

\* C31: a failed attempt, a close of the socket or a failed authentication
\* alike, schedules the reconnection after the entry of its schedule (slow
\* for the close codes 4000 to 4100, fast otherwise) at the index of the
\* failures since the last open, the first failure at the first entry (250,
\* 2000) and the last entry (10000, 300000) from there on; numberOfRetry
\* goes up by one with each failure and back to 0 only when the socket opens
C31_BackoffSchedule ==
    /\ FailedAttempt =>
          /\ numberOfRetry = trace.before.retries + 1
          /\ timeoutHandles.reconnect =
                ScheduleEntry(IF SlowFailure THEN BACKOFF_RETRY_DELAYS_SLOW
                              ELSE BACKOFF_RETRY_DELAYS, trace.before.retries)
          /\ timeoutHandles.reconnect <= (IF SlowFailure THEN 300000 ELSE 10000)
    /\ (trace.before.valid /\ ~FailedAttempt) =>
          numberOfRetry = (IF trace.op = "onOpen" /\ connection.state = "open"
                           THEN 0 ELSE trace.before.retries)

----------------------------------------------------------------------------
(* Loading the storage over connections that close and open again.          *)

NextLoading ==
    \/ (connection.state = "closed" /\ Connect(FALSE))
    \/ AuthResolved(1)
    \/ OnOpen
    \/ (opens < MaxOpens /\ numberOfRetry < MaxRetry /\ OnClose(1006))
    \/ ReconnectTimer(FALSE)
    \/ GetStorage
    \/ GetStorageSnapshot
    \/ \E items \in StorageItems : ServerAnswers(items)
    \/ FlushTimerFires

\* the endpoint answers, the socket opens, the timers fire, and the server
\* answers the FETCH_STORAGE it has got for as long as the socket is open
SpecLoading ==
    /\ Init /\ [][NextLoading]_vars
    /\ WF_vars(connection.state = "closed" /\ Connect(FALSE))
    /\ WF_vars(AuthResolved(1))
    /\ WF_vars(OnOpen)
    /\ WF_vars(ReconnectTimer(FALSE))
    /\ WF_vars(\E items \in StorageItems : ServerAnswers(items))
    /\ WF_vars(FlushTimerFires)

StorageRequested == getInitialStatePromise = "pending"
StorageLoaded32 == root.loaded /\ getInitialStatePromise = "resolved"

\* C32: when the connection stays open in the end and the server answers
\* the FETCH_STORAGE messages it gets, a storage that getStorage() or
\* getStorageSnapshot() has requested is loaded in the end and the promise
\* of getStorage is resolved, also when the socket closed between the
\* FETCH_STORAGE and its answer
C32_StorageLoads ==
    <>[](socket = "OPEN") => (StorageRequested ~> StorageLoaded32)

----------------------------------------------------------------------------
(* Authentication results that arrive late.                                 *)

AuthResult == trace.op \in {"authResolved", "authRejected"}

\* the handler made a socket and attached the handlers of the room to it
SocketAttached ==
    /\ trace.before.valid
    /\ connection.state = "connecting"
    /\ Len(connLog) > trace.before.log
    /\ \E i \in (trace.before.log + 1) .. Len(connLog) : connLog[i] = "connecting"

\* C33: an authentication that resolves or rejects while the state is
\* connecting or open belongs to an attempt that was superseded and changes
\* nothing: the state stays, no reconnect is scheduled; and a socket gets
\* the handlers of the room only when no other socket has them
C33_StaleAuthentication ==
    /\ (AuthResult /\ trace.before.connection \in {"connecting", "open"}) =>
          /\ connection.state = trace.before.connection
          /\ timeoutHandles.reconnect = NoTimer
          /\ socket = trace.before.socket
    /\ SocketAttached => trace.before.socket = "null"

\* C34: a reconnect is scheduled only when no earlier reconnect timer is
\* pending, each earlier one having fired or been cancelled, so that the
\* handle in timeoutHandles.reconnect stands for the only pending timer
C34_OneReconnectTimer == trace.leaked = 0

----------------------------------------------------------------------------
(* The other users when the connection is lost.                             *)

ConnectionLost ==
    /\ trace.before.valid
    /\ trace.before.connection \in {"connecting", "open"}
    /\ connection.state \in {"closed", "unavailable", "authenticating"}

ResetEvents ==
    SelectSeq(trace.calls,
              LAMBDA c : c.listener = "others" /\ c.event.type = "reset")

\* C35: with the connection closed, unavailable or authenticating there are
\* no other users (users is empty and getOthers() counts 0), and the handler
\* that lost the connection, a close of the socket, a reconnect() or a
\* disconnect(), gave reset to the others listeners it found
C35_OthersReset ==
    /\ connection.state \in {"closed", "unavailable", "authenticating"} =>
          (users = EmptyData /\ DOMAIN others = {})
    /\ (ConnectionLost /\ trace.before.listeners["others"] # << >>) =>
          ResetEvents # << >>

----------------------------------------------------------------------------
(* What the history listeners are told.                                     *)

\* an operation has run to its end, with a history listener registered
OperationDone ==
    /\ trace.before.valid
    /\ ~isBatching
    /\ trace.before.listeners["history"] # << >>

\* C36: the flags of the last call an operation made to the history
\* listeners are canUndo() and canRedo() of the state it leaves, and an
\* operation that changes canUndo() or canRedo() calls the history listeners
C36_HistoryFlags ==
    OperationDone =>
        /\ CallsTo("history") # << >> =>
              /\ Last(CallsTo("history")).canUndo = canUndo(Cur)
              /\ Last(CallsTo("history")).canRedo = canRedo(Cur)
        /\ ((trace.before.undo > 0) # canUndo(Cur)
                \/ (trace.before.redo > 0) # canRedo(Cur)) =>
              CallsTo("history") # << >>

----------------------------------------------------------------------------
(* The flush timer that fires on time.                                      *)

\* the flush timer fired throttleDelay after the last flush, which is the
\* delay tryFlushing gave it, on an open socket, with a presence buffered
FiredOnTime ==
    /\ trace.op = "flushTimer"
    /\ trace.before.presence.type # "null"
    /\ trace.before.socket = "OPEN"
    /\ socket = "OPEN"
    /\ now = trace.before.lastFlushTime + ThrottleDelay

\* C37: a flush timer that fires after exactly the delay it was armed with,
\* on an open socket, sends what is buffered, leaves the buffer empty and
\* arms no other timer
C37_TimerFlushes ==
    FiredOnTime =>
        /\ buffer = EmptyBuffer
        /\ timeoutHandles.flush = NoTimer
        /\ FlushFrames # << >>
====
